---- MODULE Spec2Model ----
(***************************************************************************)
(* CalmWeb filtering proxy: the domain/network resolver                    *)
(* (core/blocklist_manager.py), the policy flags                           *)
(* (config/config_manager.py) and the connection handler                   *)
(* (core/proxy_server.py).                                                 *)
(*                                                                         *)
(* Strings are sequences of one-character strings, so that strip, lower,   *)
(* split and join are computed the way the Python code computes them.      *)
(***************************************************************************)
EXTENDS Integers, Sequences, FiniteSets, TLC

(***************************************************************************)
(* Bounds of the model.                                                    *)
(***************************************************************************)
MaxLabels == 3
MaxSetSize == 1

(***************************************************************************)
(* Python string primitives.                                               *)
(***************************************************************************)
UpperSeq == <<"A","B","C","D","E","F","G","H","I","J","K","L","M",
              "N","O","P","Q","R","S","T","U","V","W","X","Y","Z">>
LowerSeq == <<"a","b","c","d","e","f","g","h","i","j","k","l","m",
              "n","o","p","q","r","s","t","u","v","w","x","y","z">>
DigitSeq == <<"0","1","2","3","4","5","6","7","8","9">>
Whitespace == {" ", "\t"}

\* str.lower() on one character
LowerChar(c) ==
  IF \E i \in 1..26 : UpperSeq[i] = c
  THEN LowerSeq[CHOOSE i \in 1..26 : UpperSeq[i] = c]
  ELSE c

\* str.lower()
Lower(s) == [i \in 1..Len(s) |-> LowerChar(s[i])]

\* str.lstrip(chars) / str.rstrip(chars) for a set of characters
RECURSIVE LStripSet(_, _)
LStripSet(s, cs) ==
  IF s # <<>> /\ Head(s) \in cs THEN LStripSet(Tail(s), cs) ELSE s

RECURSIVE RStripSet(_, _)
RStripSet(s, cs) ==
  IF s # <<>> /\ s[Len(s)] \in cs
  THEN RStripSet(SubSeq(s, 1, Len(s) - 1), cs)
  ELSE s

\* str.strip()
Strip(s) == RStripSet(LStripSet(s, Whitespace), Whitespace)

\* str.split(sep) for a one-character separator
RECURSIVE SplitFrom(_, _, _, _)
SplitFrom(s, sep, i, cur) ==
  IF i > Len(s) THEN <<cur>>
  ELSE IF s[i] = sep THEN <<cur>> \o SplitFrom(s, sep, i + 1, <<>>)
  ELSE SplitFrom(s, sep, i + 1, Append(cur, s[i]))

Split(s, sep) == SplitFrom(s, sep, 1, <<>>)

\* str.split(sep, 1): at most one split, at the first separator
Split1(s, sep) ==
  IF \E i \in 1..Len(s) : s[i] = sep
  THEN LET k == CHOOSE i \in 1..Len(s) :
                   s[i] = sep /\ \A j \in 1..(i - 1) : s[j] # sep
       IN  <<SubSeq(s, 1, k - 1), SubSeq(s, k + 1, Len(s))>>
  ELSE <<s>>

\* str.split() without arguments: runs of whitespace separate the tokens
RECURSIVE SplitWsFrom(_, _, _)
SplitWsFrom(s, i, cur) ==
  IF i > Len(s) THEN (IF cur = <<>> THEN <<>> ELSE <<cur>>)
  ELSE IF s[i] \in Whitespace
       THEN (IF cur = <<>> THEN <<>> ELSE <<cur>>) \o SplitWsFrom(s, i + 1, <<>>)
       ELSE SplitWsFrom(s, i + 1, Append(cur, s[i]))

SplitWs(s) == SplitWsFrom(s, 1, <<>>)

\* sep.join(parts)
RECURSIVE Join(_, _)
Join(parts, sep) ==
  IF parts = <<>> THEN <<>>
  ELSE IF Len(parts) = 1 THEN parts[1]
  ELSE parts[1] \o <<sep>> \o Join(Tail(parts), sep)

\* '.'.join(parts[i:]) with Python's 0-based i
SuffixFrom(parts, i) == Join(SubSeq(parts, i + 1, Len(parts)), ".")

\* c in s
Contains(s, c) == \E i \in 1..Len(s) : s[i] = c

\* s.startswith(p)
StartsWith(s, p) == Len(s) >= Len(p) /\ SubSeq(s, 1, Len(p)) = p

IsDigit(c) == \E i \in 1..10 : DigitSeq[i] = c
DigitVal(c) == (CHOOSE i \in 1..10 : DigitSeq[i] = c) - 1

\* int(s) for a string of decimal digits
RECURSIVE DecVal(_)
DecVal(s) ==
  IF s = <<>> THEN 0
  ELSE 10 * DecVal(SubSeq(s, 1, Len(s) - 1)) + DigitVal(s[Len(s)])

AllDigits(s) == s # <<>> /\ \A i \in 1..Len(s) : IsDigit(s[i])

\* one octet of a dotted quad as ipaddress accepts it: 1 to 3 decimal
\* digits, no leading zero, value at most 255
IsOctet(p) ==
  /\ AllDigits(p)
  /\ Len(p) <= 3
  /\ (Len(p) > 1 => p[1] # "0")
  /\ DecVal(p) <= 255

(***************************************************************************)
(* BlocklistResolver: IP detection, networks and the list parsers.         *)
(* Only dotted-quad IPv4 literals are modelled (the alphabet of the model  *)
(* has no ':').                                                            *)
(***************************************************************************)
\* BlocklistResolver._looks_like_ip
looks_like_ip(s) ==
  LET parts == Split(s, ".")
  IN  Len(parts) = 4 /\ \A k \in 1..4 : IsOctet(parts[k])

\* ipaddress.ip_address(s) for a string that looks like an IP
ip_address(s) == [k \in 1..4 |-> DecVal(Split(s, ".")[k])]

RECURSIVE Pow2(_)
Pow2(n) == IF n = 0 THEN 1 ELSE 2 * Pow2(n - 1)

\* number of bits of octet k covered by a prefix of length p
PrefixBits(k, p) ==
  LET b == p - 8 * (k - 1)
  IN  IF b <= 0 THEN 0 ELSE IF b >= 8 THEN 8 ELSE b

\* octet o with the host bits of a /p network cleared
MaskOctet(o, k, p) ==
  LET q == Pow2(8 - PrefixBits(k, p)) IN (o \div q) * q

\* ipaddress.ip_network(entry, strict=False): "a.b.c.d/n", host bits masked
IsNetworkEntry(entry) ==
  LET parts == Split(entry, "/")
  IN  /\ Len(parts) = 2
      /\ looks_like_ip(parts[1])
      /\ AllDigits(parts[2])
      /\ Len(parts[2]) <= 2
      /\ DecVal(parts[2]) <= 32

ip_network(entry) ==
  LET parts == Split(entry, "/")
      p == DecVal(parts[2])
      a == ip_address(parts[1])
  IN  [addr |-> [k \in 1..4 |-> MaskOctet(a[k], k, p)], prefix |-> p]

\* ip_obj in net
InNetwork(ip, net) ==
  \A k \in 1..4 : MaskOctet(ip[k], k, net.prefix) = net.addr[k]

\* a parser that would keep every token
ParseBlocklistLine_unfiltered(raw) ==
  LET line == Strip(Split1(raw, "#")[1])
      parts == SplitWs(line)
      token == IF Len(parts) = 0 THEN <<>>
               ELSE IF Len(parts) = 1 THEN parts[1]
               ELSE IF ~looks_like_ip(parts[1]) THEN parts[1]
               ELSE parts[2]
  IN  IF line = <<>> \/ token = <<>> THEN {} ELSE {token}

\* _load_blocklist, the body of the loop over the lines of one document:
\* the set holding the domain the line contributes, or the empty set
ParseBlocklistLine(raw) ==
  LET line == Strip(Split1(raw, "#")[1])
      parts == SplitWs(line)
      token == IF Len(parts) = 0 THEN <<>>
               ELSE IF Len(parts) = 1 THEN parts[1]
               ELSE IF ~looks_like_ip(parts[1]) THEN parts[1]
               ELSE parts[2]
      domain == LStripSet(Lower(token), {"."})
  IN  IF line = <<>> \/ token = <<>> THEN {}
      ELSE IF domain = <<>> \/ looks_like_ip(domain) THEN {}
      ELSE IF Len(domain) > 253 THEN {}
      ELSE IF Len(domain) < 3 \/ ~Contains(domain, ".") THEN {}
      ELSE {domain}

\* the domains of one blocklist document (a sequence of lines)
ParseBlocklist(content) ==
  UNION {ParseBlocklistLine(content[i]) : i \in 1..Len(content)}

\* _load_whitelist, the body of the loop over the lines of one document:
\* the domain entry and the network the line contributes
ParseWhitelistLine(raw) ==
  LET line == Strip(Split1(raw, "#")[1])
      entry == Strip(Lower(line))
      wild == LStripSet(SubSeq(entry, 3, Len(entry)), {"."})
      plain == LStripSet(entry, {"."})
  IN  IF line = <<>> THEN [domains |-> {}, networks |-> {}]
      ELSE IF StartsWith(entry, <<"*", ".">>)
      THEN [domains |-> IF wild # <<>> /\ ~looks_like_ip(wild) THEN {wild} ELSE {},
            networks |-> {}]
      ELSE IF Contains(entry, "/")
      THEN [domains |-> {},
            networks |-> IF IsNetworkEntry(entry) THEN {ip_network(entry)} ELSE {}]
      ELSE IF looks_like_ip(entry)
      THEN [domains |-> {entry}, networks |-> {}]
      ELSE [domains |-> IF plain # <<>> /\ ~looks_like_ip(plain) /\ Len(plain) <= 253
                        THEN {plain} ELSE {},
            networks |-> {}]

ParseWhitelist(content) ==
  [domains |-> UNION {ParseWhitelistLine(content[i]).domains : i \in 1..Len(content)},
   networks |-> UNION {ParseWhitelistLine(content[i]).networks : i \in 1..Len(content)}]

(***************************************************************************)
(* BlocklistResolver: the matching functions, as functions of the sets     *)
(* they read.                                                              *)
(***************************************************************************)
\* hostname.strip().lower().rstrip('.')
Normalize(hostname) == RStripSet(Lower(Strip(hostname)), {"."})

\* the right-aligned label suffixes '.'.join(parts[i:]) for i in range(lo, len(parts))
LabelSuffixes(host, lo) ==
  LET parts == Split(host, ".")
  IN  {SuffixFrom(parts, i) : i \in lo..(Len(parts) - 1)}

\* is_whitelisted going on to the label suffixes for a literal IP
is_whitelisted_suffix_ip(hostname, wl, nets) ==
  LET host == Normalize(hostname)
  IN  IF hostname = <<>> \/ host = <<>> THEN FALSE
      ELSE \/ looks_like_ip(host)
                /\ \E net \in nets : InNetwork(ip_address(host), net)
           \/ \E candidate \in LabelSuffixes(host, 0) : candidate \in wl

\* BlocklistResolver.is_whitelisted on the sets wl (whitelisted_domains_local)
\* and nets (whitelisted_networks)
is_whitelisted(hostname, wl, nets) ==
  LET host == Normalize(hostname)
  IN  IF hostname = <<>> \/ host = <<>> THEN FALSE
      ELSE IF looks_like_ip(host)
      THEN host \in wl \/ \E net \in nets : InNetwork(ip_address(host), net)
      ELSE \E candidate \in LabelSuffixes(host, 0) : candidate \in wl

\* blocklist_check without the filter on the parents: any parent suffix,
\* a bare last label included, blocks
blocklist_check_any_parent(host, blocked, manual) ==
  \/ host \in blocked \/ host \in manual
  \/ \E parent \in LabelSuffixes(host, 1) :
       parent \in blocked \/ parent \in manual

\* _is_blocked step 3: the exact host, then its parents of at least 3
\* characters that contain a dot
blocklist_check(host, blocked, manual) ==
  \/ host \in blocked \/ host \in manual
  \/ \E parent \in LabelSuffixes(host, 1) :
       /\ Len(parent) >= 3 /\ Contains(parent, ".")
       /\ (parent \in blocked \/ parent \in manual)

\* _is_blocked step 2: a literal IP that passed the whitelist check
direct_ip_check(host, wlGlobal, flag) ==
  IF host \in wlGlobal THEN FALSE ELSE flag

\* _is_blocked with the blocklist consulted before the whitelist
is_blocked_blocklist_first(hostname, wl, nets, wlGlobal, blocked, manual, flag) ==
  LET host == Normalize(hostname)
  IN  IF hostname = <<>> \/ host = <<>> THEN FALSE
      ELSE IF looks_like_ip(host)
      THEN (IF is_whitelisted(host, wl, nets) THEN FALSE
            ELSE direct_ip_check(host, wlGlobal, flag))
      ELSE IF blocklist_check(host, blocked, manual) THEN TRUE
      ELSE FALSE

\* BlocklistResolver._is_blocked evaluated on one state of the sets
is_blocked(hostname, wl, nets, wlGlobal, blocked, manual, flag) ==
  LET host == Normalize(hostname)
  IN  IF hostname = <<>> \/ host = <<>> THEN FALSE
      ELSE IF is_whitelisted(host, wl, nets) THEN FALSE
      ELSE IF looks_like_ip(host) THEN direct_ip_check(host, wlGlobal, flag)
      ELSE blocklist_check(host, blocked, manual)

(***************************************************************************)
(* Input domains.                                                          *)
(***************************************************************************)
\* labels of the host names the decisions are asked about
NameLabels == {<<>>, <<"t">>, <<"n">>, <<"t", "n">>}

LabelSeqs == UNION {[1..k -> NameLabels] : k \in 1..MaxLabels}

DomainHosts == {Join(ls, ".") : ls \in LabelSeqs}

\* literal IPs, and host names as a client may spell them
IpHosts == {<<"1", ".", "2", ".", "3", ".", "4">>,
            <<"1", ".", "2", ".", "9", ".", "9">>,
            <<"9", ".", "9", ".", "9", ".", "9">>}

SpelledHosts == {<<" ", "D", ".", "T", ".", "n", ".">>,
                 <<"1", ".", "2", ".", "3", ".", "4", " ">>}

Hosts == DomainHosts \cup IpHosts \cup SpelledHosts

\* a whitelist document and a blocklist document; the entries the sets can
\* hold are the ones the parsers produce from them
WhitelistSample == << <<"*", ".", "n">>,
                      <<"t", ".", "n">>,
                      <<" ", "D", ".", "t", ".", "n", " ", "#", "x">>,
                      <<"3", ".", "4">>,
                      <<"1", ".", "2", ".", "3", ".", "4">>,
                      <<"1", ".", "2", ".", "3", ".", "4", "/", "1", "6">>,
                      <<"t", "/", "n">> >>

BlocklistSample == << <<"t", ".", "n">>,
                      <<"0", ".", "0", ".", "0", ".", "0", " ", "D", ".", "t", ".", "n">>,
                      <<".", "t", "n", ".", "n", "\t", "#", "x">>,
                      <<"n">>,
                      <<"1", ".", "2", ".", "3", ".", "4">>,
                      <<"#", "t">> >>

WlEntries == ParseWhitelist(WhitelistSample).domains
WlNetworks == ParseWhitelist(WhitelistSample).networks
BlEntries == ParseBlocklist(BlocklistSample)

\* manual entries: custom.cfg lines (lowercased, leading dots stripped) and
\* domains accepted by the domains API
ManualBlockEntries == {<<"t", ".", "n">>, <<"n">>}
ManualAllowEntries == {<<"1", ".", "2", ".", "9", ".", "9">>}

SmallSubsets(S) == {T \in SUBSET S : Cardinality(T) <= MaxSetSize}

FlagNames == {"block_enabled", "block_ip_direct", "block_http_traffic",
              "block_http_other_ports"}

(***************************************************************************)
(* State.                                                                  *)
(***************************************************************************)
VARIABLES
  blocked_domains,            \* BlocklistResolver.blocked_domains
  whitelisted_domains_local,  \* BlocklistResolver.whitelisted_domains_local
  whitelisted_networks,       \* BlocklistResolver.whitelisted_networks
  manual_blocked_domains,     \* settings.manual_blocked_domains
  whitelisted_domains,        \* settings.whitelisted_domains
  settings,                   \* the flag attributes of the settings module
  block_ip_direct,            \* blocklist_manager's own name block_ip_direct,
                              \* bound by "from ..config.settings import"
  config_manager,             \* the four flags of the ConfigManager singleton
  call,                       \* the matching call of the calling thread on
                              \* the current state, and what it returned
  now,                        \* time.time()
  last_reload,                \* BlocklistResolver.last_reload
  lock,                       \* BlocklistResolver._lock: its holder, or Free
  loading_lock,               \* BlocklistResolver._loading_lock: holder, or Free
  resolver_loading,           \* the event _RESOLVER_LOADING
  bl,                         \* the threads running _load_blocklist
  wlt,                        \* the threads running _load_whitelist
  dec,                        \* a thread inside is_whitelisted / _is_blocked
  dec_atomic,                 \* what _is_blocked evaluated in one piece would
                              \* have returned at each instant of dec's call
  returned,                   \* the candidate sets of the last reload of each
                              \* list that has returned
  obs,                        \* ConfigManager._change_callbacks and what the
                              \* last write of a flag did with them
  web,                        \* the web API's side: the whitelist entries the
                              \* user holds, the document the whitelist source
                              \* serves now, and the _load_whitelist threads
                              \* whose inputs have not changed since they began
  rl,                         \* one relayed connection: the handler and
                              \* full_duplex_relay, the two _relay_worker
                              \* threads, the two sockets and their peers
  req,                        \* the request a BlockProxyHandler is serving
  hd,                         \* the handler: its position, locals and effects
  hist                        \* what held at every instant of the handling

resolverVars == <<blocked_domains, whitelisted_domains_local, whitelisted_networks>>
listVars == <<manual_blocked_domains, whitelisted_domains>>
flagVars == <<settings, block_ip_direct, config_manager>>
clockVars == <<now, last_reload>>
lockVars == <<lock, loading_lock, resolver_loading>>
threadVars == <<bl, wlt, dec, dec_atomic, returned, rl, obs, web>>
reloadVars == <<clockVars, lockVars, threadVars>>

proxyVars == <<req, hd>>

vars == <<resolverVars, listVars, flagVars, call, reloadVars, proxyVars, hist>>

NoCall == [fn |-> "none", hostname |-> <<>>, result |-> FALSE, fault |-> "none"]

(***************************************************************************)
(* The list sources and the threads that reload from them.                 *)
(***************************************************************************)
Free == "free"

BlThreads == {"b1", "b2"}
WlThreads == {"w1", "w2"}

\* BlocklistResolver.blocklist_urls and settings.WHITELIST_URLS
blocklist_urls == <<"bu1", "bu2">>
WHITELIST_URLS == <<"wu1">>

\* the document a source serves when the fetch succeeds
Document(url) ==
  IF url = "bu1" THEN << <<"t", ".", "n">> >>
  ELSE IF url = "bu2"
  THEN << <<"0", ".", "0", ".", "0", ".", "0", " ", "D", ".", "t", ".", "n">>,
          <<"#", "x">>,
          <<".", "T", ".", "T", ".", "n">>,
          <<"n">>,
          <<".", "n">>,
          <<"1", ".", "2", ".", "3", ".", "4">> >>
  ELSE << <<"*", ".", "n">>,
          <<"1", ".", "2", ".", "3", ".", "4", "/", "1", "6">> >>

\* range(3): the attempts made on one source
MaxAttempts == 3

\* BlocklistResolver.reload_interval for the default argument
reload_interval == 3600

\* the clock advances by more than one reload interval at a time
MaxTicks == 1

\* what the parser makes of each source's document
ParsedBlocklist ==
  [i \in DOMAIN blocklist_urls |-> ParseBlocklist(Document(blocklist_urls[i]))]

ParsedWhitelist ==
  [i \in DOMAIN WHITELIST_URLS |-> ParseWhitelist(Document(WHITELIST_URLS[i]))]

\* a whitelist source is a remote document: what it serves can change.  The
\* later version no longer lists the wildcard domain
Versions == 1..2

DocumentAt(v, url) ==
  IF v = 1 THEN Document(url)
  ELSE << <<"1", ".", "2", ".", "3", ".", "4", "/", "1", "6">> >>

ParsedWhitelistAt ==
  [v \in Versions |->
     IF v = 1 THEN ParsedWhitelist
     ELSE [i \in DOMAIN WHITELIST_URLS |->
             ParseWhitelist(DocumentAt(v, WHITELIST_URLS[i]))]]

WebIdle == [manual |-> {}, doc |-> 1, fresh |-> {}]

BlIdle == [pc |-> "idle", i |-> 1, attempt |-> 0, domains |-> {}, ok |-> {},
           slept |-> 0]

WlIdle == [pc |-> "idle", i |-> 1, attempt |-> 0, new_domains |-> {},
           new_networks |-> {}, ok |-> {}, slept |-> 0]

DecIdle == [pc |-> "idle", fn |-> "none", hostname |-> <<>>, host |-> <<>>,
            result |-> FALSE, observe |-> FALSE, inflight |-> FALSE,
            partial |-> FALSE, after |-> FALSE]

NoRequest == [method |-> "none", path |-> <<>>, scheme |-> "none",
              url_host |-> <<>>, url_port |-> 0, host_hdr |-> <<>>]

HdIdle == [pc |-> "idle", hostname |-> <<>>, target_host |-> <<>>,
           target_port |-> 0, is_whitelisted |-> FALSE, outcome |-> "none",
           blocked_events |-> 0, allowed_events |-> 0, upstream |-> 0,
           remote |-> FALSE,      \* a CONNECT has its upstream socket
           announced |-> FALSE,   \* "200 Connection Established" was sent
           relayed |-> FALSE]     \* full_duplex_relay was called

HistInit == [whitelisted |-> TRUE, unlisted |-> TRUE, blocked |-> TRUE]

\* no request is being served
ProxyIdle ==
  /\ req = NoRequest
  /\ hd = HdIdle
  /\ hist = HistInit

\* no reload and no decision is running
\* no observer is registered and no flag has been written
NoWrite == [name |-> "none", old |-> FALSE, value |-> FALSE,
            registered |-> <<>>, raising |-> {}, calls |-> <<>>,
            returned |-> TRUE]

ObsIdle == [callbacks |-> <<>>, last |-> NoWrite]

\* the sockets of a relay and the threads that copy between them
Socks == {"a_sock", "b_sock"}
Workers == {"t1", "t2"}

\* _relay_worker(src, dst) as full_duplex_relay starts it
src(w) == IF w = "t1" THEN "a_sock" ELSE "b_sock"
dst(w) == IF w = "t1" THEN "b_sock" ELSE "a_sock"
other(w) == IF w = "t1" THEN "t2" ELSE "t1"

\* no connection is being relayed
RelayIdle ==
  [pc       |-> "idle",                      \* handler and full_duplex_relay
   caller   |-> "none",                      \* do_CONNECT or _handle_http_method
   wk       |-> [w \in Workers |-> [pc |-> "unstarted", data |-> <<>>,
                                    ended |-> "none"]],  \* why the loop ended
   rd       |-> [s \in Socks |-> <<>>],      \* what recv has returned
   rx       |-> [s \in Socks |-> <<>>],      \* received, not yet read by recv
   fin      |-> [s \in Socks |-> FALSE],     \* the peer has shut its sending side
   reset    |-> [s \in Socks |-> FALSE],     \* the peer has reset the connection
   wr_shut  |-> [s \in Socks |-> FALSE],     \* shutdown(SHUT_WR) was called
   closed   |-> [s \in Socks |-> FALSE],     \* close() was called
   tx       |-> [s \in Socks |-> <<>>],      \* what sendall has sent
   sent     |-> [s \in Socks |-> <<>>],      \* what the peer has sent so far
   late     |-> [s \in Socks |-> FALSE],     \* the peer sent after the copy loop
                                             \* of the other direction ended
   stall    |-> [s \in Socks |-> FALSE],     \* the peer has stopped reading and
                                             \* its window is full
   shutdown |-> FALSE]                       \* _SHUTDOWN_EVENT

ReloadIdle ==
  /\ now = 0
  /\ last_reload = 0
  /\ lock = Free
  /\ loading_lock = Free
  /\ resolver_loading = FALSE
  /\ bl = [t \in BlThreads |-> BlIdle]
  /\ wlt = [t \in WlThreads |-> WlIdle]
  /\ dec = DecIdle
  /\ dec_atomic = {}
  /\ returned = [bl |-> blocked_domains,
                 wl_domains |-> whitelisted_domains_local,
                 wl_networks |-> whitelisted_networks]
  /\ rl = RelayIdle
  /\ web = WebIdle
  /\ obs = ObsIdle

\* the loop control of "for url ...: for attempt in range(3)": the next
\* position after a success (break) or after a failed attempt
AfterSuccess(r, urls) ==
  [r EXCEPT !.i = r.i + 1, !.attempt = 0, !.slept = 0,
            !.pc = IF r.i + 1 > Len(urls) THEN "swap" ELSE "fetch"]

\* a loader that would wait one second after every failed attempt
Backoff_constant(attempt) == 1

\* time.sleep(1 + attempt * 2) after the failed attempt number attempt
\* (counted from 0): slept is the wait the last attempt ended with
Backoff(attempt) == 1 + attempt * 2

\* a loader that would give the whole load up when one source has failed
\* all its attempts
AfterFailure_abort(r, urls) ==
  IF r.attempt + 1 < MaxAttempts
  THEN [r EXCEPT !.attempt = r.attempt + 1, !.slept = Backoff(r.attempt)]
  ELSE [r EXCEPT !.attempt = 0, !.slept = Backoff(r.attempt), !.pc = "swap"]

AfterFailure(r, urls) ==
  IF r.attempt + 1 < MaxAttempts
  THEN [r EXCEPT !.attempt = r.attempt + 1, !.slept = Backoff(r.attempt)]
  ELSE [r EXCEPT !.i = r.i + 1, !.attempt = 0, !.slept = Backoff(r.attempt),
                 !.pc = IF r.i + 1 > Len(urls) THEN "swap" ELSE "fetch"]

\* dec_atomic follows the call of dec: every state from the start of the
\* call to its return adds what _is_blocked would return on that state
TrackAtomic ==
  dec_atomic' =
    IF dec'.pc = "idle" \/ dec'.fn # "_is_blocked" \/ ~dec'.observe THEN {}
    ELSE IF dec.pc = "done" THEN dec_atomic
    ELSE (IF dec.pc = "idle" THEN {} ELSE dec_atomic)
           \cup {is_blocked(dec'.hostname, whitelisted_domains_local',
                            whitelisted_networks', whitelisted_domains',
                            blocked_domains', manual_blocked_domains',
                            block_ip_direct')}

\* hist follows the handling of one request: whether the decision hostname
\* was whitelisted at every instant, and whether filtering was enabled and
\* the hostname blocked at every instant
TrackHandler ==
  hist' =
    IF hd'.pc = "idle" THEN HistInit
    ELSE IF hd.pc = "done" THEN hist
    ELSE LET base == IF hd.pc = "idle" THEN HistInit ELSE hist
         IN  [whitelisted |->
                base.whitelisted /\
                is_whitelisted(hd'.hostname, whitelisted_domains_local',
                               whitelisted_networks'),
              unlisted |->
                base.unlisted /\
                ~is_whitelisted(hd'.hostname, whitelisted_domains_local',
                                whitelisted_networks'),
              blocked |->
                base.blocked /\ config_manager'["block_enabled"] /\
                is_blocked(hd'.hostname, whitelisted_domains_local',
                           whitelisted_networks', whitelisted_domains',
                           blocked_domains', manual_blocked_domains',
                           block_ip_direct')]

\* returned follows the loads: a load that returns leaves its candidate here
TrackReturned ==
  returned' =
    [bl |-> IF \E t \in BlThreads : bl[t].pc = "finish" /\ bl'[t].pc = "idle"
            THEN (CHOOSE d \in {bl[t].domains : t \in
                                  {u \in BlThreads : bl[u].pc = "finish" /\ bl'[u].pc = "idle"}} : TRUE)
            ELSE returned.bl,
     wl_domains |->
            IF \E t \in WlThreads : wlt[t].pc = "update" /\ wlt'[t].pc = "idle"
            THEN (CHOOSE d \in {wlt[t].new_domains : t \in
                                  {u \in WlThreads : wlt[u].pc = "update" /\ wlt'[u].pc = "idle"}} : TRUE)
            ELSE returned.wl_domains,
     wl_networks |->
            IF \E t \in WlThreads : wlt[t].pc = "update" /\ wlt'[t].pc = "idle"
            THEN (CHOOSE d \in {wlt[t].new_networks : t \in
                                  {u \in WlThreads : wlt[u].pc = "update" /\ wlt'[u].pc = "idle"}} : TRUE)
            ELSE returned.wl_networks]

\* web.fresh follows the whitelist loads: a thread enters when it takes its
\* base copy (its first read of an input) and leaves when it returns
TrackWeb ==
  web' = [web EXCEPT
            !.fresh = (@ \cup {t \in WlThreads :
                                 wlt[t].pc = "start" /\ wlt'[t].pc # "start"})
                        \ {t \in WlThreads : wlt'[t].pc = "idle"}]

\* no step of the resolver or of the decision part of a handler touches a
\* relay or the observers of the flags
Ghosts ==
  TrackAtomic /\ TrackHandler /\ TrackReturned /\ TrackWeb /\ UNCHANGED <<rl, obs>>

(***************************************************************************)
(* BlocklistResolver._load_blocklist, run by thread t.                     *)
(***************************************************************************)
\* lines 59-61: return when the loading lock is held
load_blocklist_check(t) ==
  /\ bl[t].pc = "start"
  /\ bl' = [bl EXCEPT ![t] = IF loading_lock # Free THEN BlIdle
                             ELSE [BlIdle EXCEPT !.pc = "acquire"]]
  /\ UNCHANGED <<resolverVars, listVars, flagVars, call, clockVars, lockVars,
                 wlt, dec>>
  /\ UNCHANGED proxyVars
  /\ Ghosts

\* a loader that would hold the data lock from here to the end of its fetch
load_blocklist_acquire_holding_lock(t) ==
  /\ bl[t].pc = "acquire"
  /\ loading_lock = Free
  /\ lock = Free
  /\ loading_lock' = t
  /\ lock' = t
  /\ resolver_loading' = TRUE
  /\ bl' = [bl EXCEPT ![t] = [BlIdle EXCEPT !.pc = "fetch"]]
  /\ UNCHANGED <<resolverVars, listVars, flagVars, call, clockVars, wlt, dec>>
  /\ UNCHANGED proxyVars
  /\ Ghosts

\* lines 62-66: take the loading lock (waiting for it), set the event,
\* start from an empty candidate set
load_blocklist_acquire(t) ==
  /\ bl[t].pc = "acquire"
  /\ loading_lock = Free
  /\ loading_lock' = t
  /\ resolver_loading' = TRUE
  /\ bl' = [bl EXCEPT ![t] =
              [BlIdle EXCEPT !.pc = IF Len(blocklist_urls) = 0 THEN "swap" ELSE "fetch"]]
  /\ UNCHANGED <<resolverVars, listVars, flagVars, call, clockVars, lock,
                 wlt, dec>>
  /\ UNCHANGED proxyVars
  /\ Ghosts

\* a loader that would add each source's domains to the installed set
load_blocklist_fetch_ok_in_place(t) ==
  /\ bl[t].pc = "fetch"
  /\ LET parsed == ParsedBlocklist[bl[t].i]
     IN  /\ blocked_domains' = blocked_domains \cup parsed
         /\ bl' = [bl EXCEPT ![t] =
                     AfterSuccess([bl[t] EXCEPT !.domains = @ \cup parsed,
                                                !.ok = @ \cup {bl[t].i}],
                                  blocklist_urls)]
  /\ UNCHANGED <<whitelisted_domains_local, whitelisted_networks, listVars,
                 flagVars, call, clockVars, lockVars, wlt, dec>>
  /\ UNCHANGED proxyVars
  /\ Ghosts

\* lines 70-113: one attempt on the current source succeeds; its domains
\* join the candidate set
load_blocklist_fetch_ok(t) ==
  /\ bl[t].pc = "fetch"
  /\ bl' = [bl EXCEPT ![t] =
              AfterSuccess([bl[t] EXCEPT
                              !.domains = @ \cup ParsedBlocklist[bl[t].i],
                              !.ok = @ \cup {bl[t].i}],
                           blocklist_urls)]
  /\ UNCHANGED <<resolverVars, listVars, flagVars, call, clockVars, lockVars,
                 wlt, dec>>
  /\ UNCHANGED proxyVars
  /\ Ghosts

\* lines 114-118: one attempt fails; sleep, then retry or give the source up
load_blocklist_fetch_fail(t) ==
  /\ bl[t].pc = "fetch"
  /\ bl' = [bl EXCEPT ![t] = AfterFailure(bl[t], blocklist_urls)]
  /\ UNCHANGED <<resolverVars, listVars, flagVars, call, clockVars, lockVars,
                 wlt, dec>>
  /\ UNCHANGED proxyVars
  /\ Ghosts

\* line 120: enter "with self._lock"
load_blocklist_lock(t) ==
  /\ bl[t].pc = "swap"
  /\ lock = Free
  /\ lock' = t
  /\ bl' = [bl EXCEPT ![t].pc = "store"]
  /\ UNCHANGED <<resolverVars, listVars, flagVars, call, clockVars,
                 loading_lock, resolver_loading, wlt, dec>>
  /\ UNCHANGED proxyVars
  /\ Ghosts

\* a load that would return without having installed its candidate
load_blocklist_store_skipped(t) ==
  /\ bl[t].pc = "store"
  /\ last_reload' = now
  /\ lock' = Free
  /\ bl' = [bl EXCEPT ![t].pc = "finish"]
  /\ UNCHANGED <<resolverVars, listVars, flagVars, call, now, loading_lock,
                 resolver_loading, wlt, dec>>
  /\ UNCHANGED proxyVars
  /\ Ghosts

\* lines 121-122: install the candidate set, stamp last_reload, leave the lock
load_blocklist_store(t) ==
  /\ bl[t].pc = "store"
  /\ blocked_domains' = bl[t].domains
  /\ last_reload' = now
  /\ lock' = Free
  /\ bl' = [bl EXCEPT ![t].pc = "finish"]
  /\ UNCHANGED <<whitelisted_domains_local, whitelisted_networks, listVars,
                 flagVars, call, now, loading_lock, resolver_loading, wlt, dec>>
  /\ UNCHANGED proxyVars
  /\ Ghosts

\* lines 126-127: clear the event and release the loading lock
load_blocklist_finish(t) ==
  /\ bl[t].pc = "finish"
  /\ resolver_loading' = FALSE
  /\ loading_lock' = Free
  /\ bl' = [bl EXCEPT ![t] = BlIdle]
  /\ UNCHANGED <<resolverVars, listVars, flagVars, call, clockVars, lock,
                 wlt, dec>>
  /\ UNCHANGED proxyVars
  /\ Ghosts

(***************************************************************************)
(* BlocklistResolver._load_whitelist, run by thread t.                     *)
(***************************************************************************)
\* lines 136-148: the candidate sets start from the manual whitelist
load_whitelist_base(t) ==
  /\ wlt[t].pc = "start"
  /\ wlt' = [wlt EXCEPT ![t] =
               [WlIdle EXCEPT
                  !.pc = IF Len(WHITELIST_URLS) = 0 THEN "swap" ELSE "fetch",
                  !.new_domains = {LStripSet(Lower(d), {"."}) :
                                     d \in {e \in whitelisted_domains : e # <<>>}}]]
  /\ UNCHANGED <<resolverVars, listVars, flagVars, call, clockVars, lockVars,
                 bl, dec>>
  /\ UNCHANGED proxyVars
  /\ Ghosts

\* lines 152-189: one attempt on the current source succeeds
load_whitelist_fetch_ok(t) ==
  /\ wlt[t].pc = "fetch"
  /\ LET parsed == ParsedWhitelistAt[web.doc][wlt[t].i]
     IN  wlt' = [wlt EXCEPT ![t] =
                   AfterSuccess([wlt[t] EXCEPT
                                   !.new_domains = @ \cup parsed.domains,
                                   !.new_networks = @ \cup parsed.networks,
                                   !.ok = @ \cup {wlt[t].i}],
                                WHITELIST_URLS)]
  /\ UNCHANGED <<resolverVars, listVars, flagVars, call, clockVars, lockVars,
                 bl, dec>>
  /\ UNCHANGED proxyVars
  /\ Ghosts

\* lines 190-192: one attempt fails; sleep, then retry or give the source up
load_whitelist_fetch_fail(t) ==
  /\ wlt[t].pc = "fetch"
  /\ wlt' = [wlt EXCEPT ![t] = AfterFailure(wlt[t], WHITELIST_URLS)]
  /\ UNCHANGED <<resolverVars, listVars, flagVars, call, clockVars, lockVars,
                 bl, dec>>
  /\ UNCHANGED proxyVars
  /\ Ghosts

\* line 195: enter "with self._lock"
load_whitelist_lock(t) ==
  /\ wlt[t].pc = "swap"
  /\ lock = Free
  /\ lock' = t
  /\ wlt' = [wlt EXCEPT ![t].pc = "store"]
  /\ UNCHANGED <<resolverVars, listVars, flagVars, call, clockVars,
                 loading_lock, resolver_loading, bl, dec>>
  /\ UNCHANGED proxyVars
  /\ Ghosts

\* lines 196-202: install both candidate sets, clear the global whitelist
load_whitelist_store(t) ==
  /\ wlt[t].pc = "store"
  /\ whitelisted_domains_local' = wlt[t].new_domains
  /\ whitelisted_networks' = wlt[t].new_networks
  /\ whitelisted_domains' = {}
  /\ wlt' = [wlt EXCEPT ![t].pc = "update"]
  /\ UNCHANGED <<blocked_domains, manual_blocked_domains, flagVars, call,
                 clockVars, lockVars, bl, dec>>
  /\ UNCHANGED proxyVars
  /\ Ghosts

\* line 203: refill the global whitelist, then leave the lock
load_whitelist_update(t) ==
  /\ wlt[t].pc = "update"
  /\ whitelisted_domains' = whitelisted_domains \cup wlt[t].new_domains
  /\ lock' = Free
  /\ wlt' = [wlt EXCEPT ![t] = WlIdle]
  /\ UNCHANGED <<resolverVars, manual_blocked_domains, flagVars, call,
                 clockVars, loading_lock, resolver_loading, bl, dec>>
  /\ UNCHANGED proxyVars
  /\ Ghosts

(***************************************************************************)
(* What starts a reload.                                                   *)
(***************************************************************************)
\* threading.Thread(target=_load_blocklist).start() and the same for
\* _load_whitelist, on two threads that are not running
StartBoth(t1, t2) ==
  /\ bl[t1].pc = "idle"
  /\ wlt[t2].pc = "idle"
  /\ bl' = [bl EXCEPT ![t1].pc = "start"]
  /\ wlt' = [wlt EXCEPT ![t2].pc = "start"]

\* BlocklistResolver.maybe_reload_background; B and W are the threads the
\* process can still start
maybe_reload_background(B, W) ==
  /\ now - last_reload > reload_interval
  /\ loading_lock = Free
  /\ \E t1 \in B, t2 \in W : StartBoth(t1, t2)
  /\ UNCHANGED <<resolverVars, listVars, flagVars, call, clockVars, lockVars, dec>>
  /\ UNCHANGED proxyVars
  /\ Ghosts

\* system_tray.reload_config_action: the flags are taken back from the
\* settings module and both reloads are started unconditionally (the
\* custom.cfg it reads holds the lists as they are in memory)
reload_config_action(B, W) ==
  /\ config_manager' = settings
  /\ \E t1 \in B, t2 \in W : StartBoth(t1, t2)
  /\ UNCHANGED <<resolverVars, listVars, settings, block_ip_direct, call,
                 clockVars, lockVars, dec>>
  /\ UNCHANGED proxyVars
  /\ Ghosts

\* time passes
Tick ==
  /\ now < MaxTicks * (reload_interval + 1)
  /\ now' = now + reload_interval + 1
  /\ UNCHANGED <<resolverVars, listVars, flagVars, call, last_reload, lockVars,
                 bl, wlt, dec>>
  /\ UNCHANGED proxyVars
  /\ Ghosts

(***************************************************************************)
(* A thread inside is_whitelisted or _is_blocked, step by step.  Each      *)
(* "with self._lock" block of the reader is one step that needs the lock   *)
(* to be free.                                                             *)
(***************************************************************************)
SomeFetching ==
  (\E t \in BlThreads : bl[t].pc = "fetch") \/ (\E t \in WlThreads : wlt[t].pc = "fetch")

\* a blocklist reload holds a candidate that is neither empty nor installed
SomePartial ==
  \E t \in BlThreads :
    bl[t].pc = "fetch" /\ bl[t].domains # {} /\ bl[t].domains # blocked_domains

\* a blocklist reload started since construction has returned, and no
\* other has installed its set since
ReloadReturned ==
  /\ last_reload > 0
  /\ \A t \in BlThreads : bl[t].pc # "finish"

DecDone(r, result) ==
  [r EXCEPT !.pc = "done", !.result = result, !.inflight = r.inflight /\ SomeFetching]

\* lines 268-274 (_is_blocked) and 226-230 (is_whitelisted): normalise
DecCall(fn, hostname, observe) ==
  LET host == Normalize(hostname)
      r == [DecIdle EXCEPT !.fn = fn, !.hostname = hostname, !.host = host,
                           !.observe = observe,
                           !.inflight = observe /\ SomeFetching,
                           !.after = observe /\ ReloadReturned]
  IN  IF hostname = <<>> \/ host = <<>>
      THEN [r EXCEPT !.pc = "done", !.result = FALSE]
      ELSE [r EXCEPT !.pc = "whitelist"]

dec_start(fn, hostname) ==
  /\ dec.pc = "idle"
  /\ dec' = DecCall(fn, hostname, TRUE)
  /\ UNCHANGED <<resolverVars, listVars, flagVars, call, clockVars, lockVars,
                 bl, wlt>>
  /\ UNCHANGED proxyVars
  /\ Ghosts

\* is_whitelisted, lines 232-256, called directly or from _is_blocked line 278
dec_whitelist ==
  /\ dec.pc = "whitelist"
  /\ lock = Free
  /\ LET w == is_whitelisted(dec.host, whitelisted_domains_local, whitelisted_networks)
     IN  dec' = IF dec.fn = "is_whitelisted" THEN DecDone(dec, w)
                ELSE IF w THEN DecDone(dec, FALSE)
                ELSE IF looks_like_ip(dec.host)
                THEN [dec EXCEPT !.pc = "direct_ip", !.inflight = @ /\ SomeFetching]
                ELSE [dec EXCEPT !.pc = "blocklist", !.inflight = @ /\ SomeFetching]
  /\ UNCHANGED <<resolverVars, listVars, flagVars, call, clockVars, lockVars,
                 bl, wlt>>
  /\ UNCHANGED proxyVars
  /\ Ghosts

\* _is_blocked lines 286-294
dec_direct_ip ==
  /\ dec.pc = "direct_ip"
  /\ dec' = DecDone(dec, direct_ip_check(dec.host, whitelisted_domains, block_ip_direct))
  /\ UNCHANGED <<resolverVars, listVars, flagVars, call, clockVars, lockVars,
                 bl, wlt>>
  /\ UNCHANGED proxyVars
  /\ Ghosts

\* _is_blocked lines 299-319
dec_blocklist ==
  /\ dec.pc = "blocklist"
  /\ lock = Free
  /\ dec' = [DecDone(dec, blocklist_check(dec.host, blocked_domains,
                                          manual_blocked_domains))
               EXCEPT !.partial = dec.observe /\ SomePartial]
  /\ UNCHANGED <<resolverVars, listVars, flagVars, call, clockVars, lockVars,
                 bl, wlt>>
  /\ UNCHANGED proxyVars
  /\ Ghosts

\* the next step of a call under way can be taken: its lock section finds
\* the lock free, or it needs no lock
DecCanStep ==
  \/ dec.pc = "direct_ip"
  \/ dec.pc \in {"whitelist", "blocklist"} /\ lock = Free

\* the caller takes the result
dec_return ==
  /\ dec.pc = "done"
  /\ dec' = DecIdle
  /\ UNCHANGED <<resolverVars, listVars, flagVars, call, clockVars, lockVars,
                 bl, wlt>>
  /\ UNCHANGED proxyVars
  /\ Ghosts

(***************************************************************************)
(* The policy flags.                                                       *)
(***************************************************************************)
\* ConfigManager property setters (block_enabled, block_ip_direct,
\* block_http_traffic, block_http_other_ports)
SetFlag(name, value) ==
  /\ config_manager' = [config_manager EXCEPT ![name] = value]
  /\ call' = NoCall
  /\ UNCHANGED <<resolverVars, listVars, settings, block_ip_direct>>
  /\ UNCHANGED <<reloadVars, proxyVars, hist>>

\* ConfigManager.sync_to_legacy_settings: assigns the attributes of the
\* settings module; names other modules imported from it keep their binding
sync_to_legacy_settings ==
  /\ settings' = config_manager
  /\ call' = NoCall
  /\ UNCHANGED <<resolverVars, listVars, block_ip_direct, config_manager>>
  /\ UNCHANGED <<reloadVars, proxyVars, hist>>

\* ConfigManager.update_from_legacy_settings
update_from_legacy_settings ==
  /\ config_manager' = settings
  /\ call' = NoCall
  /\ UNCHANGED <<resolverVars, listVars, settings, block_ip_direct>>
  /\ UNCHANGED <<reloadVars, proxyVars, hist>>

(***************************************************************************)
(* The matching functions called on the current state.                     *)
(***************************************************************************)
IsWhitelistedNow(hostname) ==
  is_whitelisted(hostname, whitelisted_domains_local, whitelisted_networks)

IsBlockedNow(hostname) ==
  is_blocked(hostname, whitelisted_domains_local, whitelisted_networks,
             whitelisted_domains, blocked_domains, manual_blocked_domains,
             block_ip_direct)

CallIsWhitelisted(hostname) ==
  /\ call = NoCall
  /\ call' = [fn |-> "is_whitelisted", hostname |-> hostname,
              result |-> IsWhitelistedNow(hostname), fault |-> "none"]
  /\ UNCHANGED <<resolverVars, listVars, flagVars>>
  /\ UNCHANGED <<reloadVars, proxyVars, hist>>

CallIsBlocked(hostname) ==
  /\ call = NoCall
  /\ call' = [fn |-> "_is_blocked", hostname |-> hostname,
              result |-> IsBlockedNow(hostname), fault |-> "none"]
  /\ UNCHANGED <<resolverVars, listVars, flagVars>>
  /\ UNCHANGED <<reloadVars, proxyVars, hist>>

(***************************************************************************)
(* The resolver called by one thread: any sets the loaders can install,    *)
(* any manual lists, any hostname.                                         *)
(***************************************************************************)
InitResolve ==
  /\ blocked_domains \in SmallSubsets(BlEntries)
  /\ whitelisted_domains_local \in SmallSubsets(WlEntries)
  /\ whitelisted_networks \in SmallSubsets(WlNetworks)
  /\ manual_blocked_domains \in SmallSubsets(ManualBlockEntries)
  /\ \E added \in SUBSET ManualAllowEntries :
       whitelisted_domains = whitelisted_domains_local \cup added
  /\ settings = [n \in FlagNames |-> TRUE]
  /\ config_manager = settings
  /\ block_ip_direct = TRUE
  /\ call = NoCall
  /\ ReloadIdle
  /\ ProxyIdle

NextResolve ==
  \/ \E h \in Hosts : CallIsWhitelisted(h)
  \/ \E h \in Hosts : CallIsBlocked(h)

SpecResolve == InitResolve /\ [][NextResolve]_vars

(***************************************************************************)
(* The resolver when something inside it raises.  The places are the try   *)
(* blocks of the two methods.                                              *)
(***************************************************************************)
\* is_whitelisted lines 225-259: any exception is caught at line 257
is_whitelisted_raising(hostname, wl, nets, raises) ==
  IF hostname = <<>> THEN FALSE
  ELSE IF raises THEN FALSE
  ELSE is_whitelisted(hostname, wl, nets)

\* where _is_blocked can raise: while normalising (caught at 320), in the
\* whitelist step inside is_whitelisted (caught there, 257) or around its
\* call (caught at 282), in the direct-IP step once the host was found to
\* be an IP (caught at 296), in the blocklist step (caught at 316)
FaultPoints == {"normalize", "whitelist", "whitelist_call", "direct_ip", "blocklist"}

\* _is_blocked lines 268-322 with an exception raised at the place "at"
is_blocked_raising(hostname, wl, nets, wlGlobal, blocked, manual, flag, at) ==
  LET host == Normalize(hostname)
  IN  IF hostname = <<>> THEN FALSE
      ELSE IF at = "normalize" THEN FALSE
      ELSE IF host = <<>> THEN FALSE
      ELSE IF at = "whitelist_call" THEN FALSE
      ELSE IF is_whitelisted_raising(host, wl, nets, at = "whitelist") THEN FALSE
      ELSE IF looks_like_ip(host) /\ at # "direct_ip"
      THEN direct_ip_check(host, wlGlobal, flag)
      ELSE IF at = "blocklist" THEN FALSE
      ELSE blocklist_check(host, blocked, manual)

\* the call comes to the place "at"
FaultReached(hostname, wl, nets, at) ==
  LET host == Normalize(hostname)
  IN  /\ hostname # <<>>
      /\ at # "normalize" => host # <<>>
      /\ at \in {"direct_ip", "blocklist"} => ~is_whitelisted(host, wl, nets)
      /\ at = "direct_ip" => looks_like_ip(host)
      /\ at = "blocklist" => ~looks_like_ip(host)

CallIsWhitelistedRaising(hostname) ==
  /\ call = NoCall
  /\ hostname # <<>>
  /\ call' = [fn |-> "is_whitelisted", hostname |-> hostname,
              result |-> is_whitelisted_raising(hostname, whitelisted_domains_local,
                                                whitelisted_networks, TRUE),
              fault |-> "whitelist"]
  /\ UNCHANGED <<resolverVars, listVars, flagVars>>
  /\ UNCHANGED <<reloadVars, proxyVars, hist>>

CallIsBlockedRaising(hostname, at) ==
  /\ call = NoCall
  /\ FaultReached(hostname, whitelisted_domains_local, whitelisted_networks, at)
  /\ call' = [fn |-> "_is_blocked", hostname |-> hostname,
              result |-> is_blocked_raising(hostname, whitelisted_domains_local,
                                            whitelisted_networks, whitelisted_domains,
                                            blocked_domains, manual_blocked_domains,
                                            block_ip_direct, at),
              fault |-> at]
  /\ UNCHANGED <<resolverVars, listVars, flagVars>>
  /\ UNCHANGED <<reloadVars, proxyVars, hist>>

\* the manual block list holds what the domains API accepts: validate_domain
\* lets a dotted quad through
ApiBlockEntries == ManualBlockEntries \cup {<<"1", ".", "2", ".", "9", ".", "9">>}

InitFault ==
  /\ blocked_domains \in SmallSubsets(BlEntries)
  /\ whitelisted_domains_local \in SmallSubsets(WlEntries)
  /\ whitelisted_networks = {}
  /\ manual_blocked_domains \in SmallSubsets(ApiBlockEntries)
  /\ whitelisted_domains = whitelisted_domains_local
  /\ settings = [n \in FlagNames |-> TRUE]
  /\ config_manager = settings
  /\ block_ip_direct = TRUE
  /\ call = NoCall
  /\ ReloadIdle
  /\ ProxyIdle

NextFault ==
  \/ \E h \in Hosts : CallIsWhitelistedRaising(h)
  \/ \E h \in Hosts, at \in FaultPoints : CallIsBlockedRaising(h, at)
  \/ \E h \in Hosts : CallIsBlocked(h)

SpecFault == InitFault /\ [][NextFault]_vars

(***************************************************************************)
(* The flags written through ConfigManager and the settings module, and    *)
(* the resolver deciding on literal IPs.  block_ip_direct starts as the    *)
(* value the settings module had when blocklist_manager imported it.       *)
(***************************************************************************)
InitFlags ==
  /\ blocked_domains = {}
  /\ whitelisted_domains_local \in SmallSubsets({<<"1", ".", "2", ".", "3", ".", "4">>})
  /\ whitelisted_networks \in SmallSubsets(WlNetworks)
  /\ manual_blocked_domains = {}
  /\ \E added \in SUBSET ManualAllowEntries :
       whitelisted_domains = whitelisted_domains_local \cup added
  /\ \E b \in BOOLEAN :
       /\ settings = [n \in FlagNames |-> IF n = "block_ip_direct" THEN b ELSE TRUE]
       /\ config_manager = settings
       /\ block_ip_direct = b
  /\ call = NoCall
  /\ ReloadIdle
  /\ ProxyIdle

NextFlags ==
  \/ \E n \in FlagNames, v \in BOOLEAN : SetFlag(n, v)
  \/ sync_to_legacy_settings
  \/ update_from_legacy_settings
  \/ \E h \in IpHosts : CallIsBlocked(h)

SpecFlags == InitFlags /\ [][NextFlags]_vars

(***************************************************************************)
(* The resolver under concurrent reloads and decisions.                    *)
(***************************************************************************)
ReloadHosts == {<<"t", ".", "n">>, <<"1", ".", "2", ".", "9", ".", "9">>}

\* the sets a load can install from a set of sources that succeeded
BlocklistOf(okUrls) == UNION {ParsedBlocklist[i] : i \in okUrls}

\* after construction: the initial loads have run and every source answered
InitReload ==
  /\ blocked_domains = BlocklistOf(1..Len(blocklist_urls))
  /\ whitelisted_domains_local = ParsedWhitelist[1].domains
  /\ whitelisted_networks = ParsedWhitelist[1].networks
  /\ whitelisted_domains = whitelisted_domains_local
  /\ manual_blocked_domains = {}
  /\ settings = [n \in FlagNames |-> TRUE]
  /\ config_manager = settings
  /\ block_ip_direct = TRUE
  /\ call = NoCall
  /\ ReloadIdle
  /\ ProxyIdle

Loaders ==
  \/ \E t \in BlThreads : load_blocklist_check(t)
  \/ \E t \in BlThreads : load_blocklist_acquire(t)
  \/ \E t \in BlThreads : load_blocklist_fetch_ok(t)
  \/ \E t \in BlThreads : load_blocklist_fetch_fail(t)
  \/ \E t \in BlThreads : load_blocklist_lock(t)
  \/ \E t \in BlThreads : load_blocklist_store(t)
  \/ \E t \in BlThreads : load_blocklist_finish(t)
  \/ \E t \in WlThreads : load_whitelist_base(t)
  \/ \E t \in WlThreads : load_whitelist_fetch_ok(t)
  \/ \E t \in WlThreads : load_whitelist_fetch_fail(t)
  \/ \E t \in WlThreads : load_whitelist_lock(t)
  \/ \E t \in WlThreads : load_whitelist_store(t)
  \/ \E t \in WlThreads : load_whitelist_update(t)

\* reloads started by the timer and by the configuration reload, any
\* number of them at a time
NextReload ==
  \/ Loaders
  \/ maybe_reload_background(BlThreads, WlThreads)
  \/ reload_config_action(BlThreads, WlThreads)
  \/ Tick

SpecReload == InitReload /\ [][NextReload]_vars

\* one reload of each list at a time, next to a thread that decides
NextDecide ==
  \/ Loaders
  \/ maybe_reload_background({"b1"}, {"w1"})
  \/ reload_config_action({"b1"}, {"w1"})
  \/ Tick
  \/ \E h \in ReloadHosts : dec_start("_is_blocked", h)
  \/ \E h \in ReloadHosts : dec_start("is_whitelisted", h)
  \/ dec_whitelist
  \/ dec_direct_ip
  \/ dec_blocklist
  \/ dec_return

\* after construction: the whitelist source answered or it did not
InitDecide ==
  /\ blocked_domains = BlocklistOf(1..Len(blocklist_urls))
  /\ \E ok \in BOOLEAN :
       /\ whitelisted_domains_local =
            IF ok THEN ParsedWhitelist[1].domains ELSE {}
       /\ whitelisted_networks =
            IF ok THEN ParsedWhitelist[1].networks ELSE {}
  /\ whitelisted_domains = whitelisted_domains_local
  /\ manual_blocked_domains = {}
  /\ settings = [n \in FlagNames |-> TRUE]
  /\ config_manager = settings
  /\ block_ip_direct = TRUE
  /\ call = NoCall
  /\ ReloadIdle
  /\ ProxyIdle

SpecDecide == InitDecide /\ [][NextDecide]_vars

(***************************************************************************)
(* BlockProxyHandler.  A request is a CONNECT with its path, or another    *)
(* method with the parts of its request target (scheme "none": the target  *)
(* is a path, not a URI) and its Host header ("" when there is none).      *)
(***************************************************************************)
VOIP_ALLOWED_PORTS == {80, 443, 3478, 5060, 5061}

Chars_t_n == <<"t", ".", "n">>
Chars_x_y == <<"x", ".", "y">>
Chars_ip == <<"1", ".", "2", ".", "9", ".", "9">>

ConnectRequest(path) == [NoRequest EXCEPT !.method = "CONNECT", !.path = path]

HttpRequest(scheme, url_host, url_port, host_hdr) ==
  [NoRequest EXCEPT !.method = "GET", !.scheme = scheme, !.url_host = url_host,
                    !.url_port = url_port, !.host_hdr = host_hdr]

ConnectRequests ==
  {ConnectRequest(Chars_t_n \o <<":", "4", "4", "3">>),
   ConnectRequest(<<"T", ".", "n">> \o <<":", "8", "1">>),
   ConnectRequest(Chars_x_y \o <<":", "8", "1">>),
   ConnectRequest(Chars_ip \o <<":", "4", "4", "3">>),
   ConnectRequest(Chars_t_n),
   ConnectRequest(Chars_t_n \o <<":", "x">>)}

HttpRequests ==
  {HttpRequest("http", Chars_t_n, 0, Chars_t_n),
   HttpRequest("https", <<"T", ".", "n">>, 0, Chars_t_n),
   HttpRequest("http", Chars_x_y, 81, Chars_x_y \o <<":", "8", "1">>),
   HttpRequest("http", Chars_ip, 0, Chars_ip),
   HttpRequest("ftp", Chars_t_n, 0, <<>>),
   HttpRequest("ftp", Chars_t_n, 0, Chars_x_y),
   HttpRequest("none", <<>>, 0, Chars_t_n),
   HttpRequest("none", <<>>, 0, Chars_x_y \o <<":", "8", "1">>),
   HttpRequest("none", <<>>, 0, <<>>),
   HttpRequest("http", <<>>, 0, <<>>)}

\* int(s) for an unsigned decimal; anything else raises ValueError
IsInt(s) == Len(s) > 0 /\ AllDigits(s)

\* urllib.parse.urlparse(self.path).hostname: the host of the authority of
\* any URI, lowercased; None (here <<>>) when the target has no authority
urlparse_hostname(r) == IF r.scheme = "none" THEN <<>> ELSE Lower(r.url_host)

\* self.path.startswith(("http://", "https://"))
startswith_http(r) == r.scheme \in {"http", "https"}

\* _handle_http_method lines 151-156: the hostname the decision is made on
http_hostname(r) ==
  LET fromPath == urlparse_hostname(r)
      hostname == IF fromPath # <<>> THEN fromPath
                  ELSE IF r.host_hdr # <<>> THEN Split1(r.host_hdr, ":")[1]
                  ELSE <<>>
  IN  Strip(Lower(hostname))

\* _handle_http_method lines 183-203: the host and port the request goes to
http_target(r) ==
  IF startswith_http(r)
  THEN [host |-> Lower(r.url_host),
        port |-> IF r.url_port # 0 THEN r.url_port
                 ELSE IF r.scheme = "https" THEN 443 ELSE 80]
  ELSE IF Contains(r.host_hdr, ":")
  THEN LET parts == Split1(r.host_hdr, ":")
       IN  [host |-> parts[1],
            port |-> IF IsInt(parts[2]) THEN DecVal(parts[2]) ELSE 80]
  ELSE [host |-> r.host_hdr, port |-> 80]

\* maybe_reload_background as the handler calls it: the threads are started
\* when the reload is due and no load holds the loading lock
HandlerMaybeReload ==
  IF /\ now - last_reload > reload_interval
     /\ loading_lock = Free
     /\ bl["b1"].pc = "idle"
     /\ wlt["w1"].pc = "idle"
  THEN StartBoth("b1", "w1")
  ELSE UNCHANGED <<bl, wlt>>

Responded(h, outcome) == [h EXCEPT !.pc = "done", !.outcome = outcome]

\* the blocked branch without its event
Blocked403_silent(h) == Responded(h, "403")

\* do_CONNECT lines 86-90, _handle_http_method lines 175-179:
\* update_dashboard_stats('blocked', ...) and send_error(403)
Blocked403(h) == Responded([h EXCEPT !.blocked_events = @ + 1], "403")

\* socket.create_connection is called once more
Attempt(h) == [h EXCEPT !.upstream = @ + 1]

\* do_CONNECT lines 53-63: split the path (outside the try), ask for a
\* reload, call is_whitelisted
do_CONNECT_begin(r) ==
  /\ hd.pc = "idle"
  /\ r.method = "CONNECT"
  /\ req' = r
  /\ LET parts == Split1(r.path, ":")
     IN  IF Len(parts) # 2 \/ ~IsInt(parts[Len(parts)])
         THEN /\ hd' = Responded(HdIdle, "raise")
              /\ UNCHANGED <<bl, wlt, dec>>
         ELSE /\ hd' = [HdIdle EXCEPT !.pc = "c_whitelist1",
                                      !.hostname = Lower(parts[1]),
                                      !.target_host = parts[1],
                                      !.target_port = DecVal(parts[2])]
              /\ HandlerMaybeReload
              /\ dec' = DecCall("is_whitelisted", Lower(parts[1]), FALSE)
  /\ UNCHANGED <<resolverVars, listVars, flagVars, call, clockVars, lockVars>>
  /\ Ghosts

\* do_CONNECT line 85: the blocklist is consulted when filtering is enabled,
\* otherwise line 93 follows
ConnectBlockCheck(h) ==
  IF config_manager["block_enabled"]
  THEN /\ hd' = [h EXCEPT !.pc = "c_blocked"]
       /\ dec' = DecCall("_is_blocked", h.hostname, FALSE)
  ELSE /\ hd' = [h EXCEPT !.pc = "c_whitelist2"]
       /\ dec' = DecCall("is_whitelisted", h.hostname, FALSE)

\* do_CONNECT line 63: is_whitelisted has returned
do_CONNECT_whitelist1 ==
  /\ hd.pc = "c_whitelist1"
  /\ dec.pc = "done"
  /\ IF dec.result
     THEN hd' = [hd EXCEPT !.pc = "c_connect1"] /\ dec' = DecIdle
     ELSE ConnectBlockCheck(hd)
  /\ UNCHANGED <<resolverVars, listVars, flagVars, call, clockVars, lockVars,
                 bl, wlt, req>>
  /\ Ghosts

\* socket.create_connection has returned the upstream socket
Connected(h) == [Attempt(h) EXCEPT !.pc = "c_announce", !.remote = TRUE]

\* do_CONNECT lines 66-82: the bypass connects; a failure is caught at line
\* 80 and the handler goes on with line 85
do_CONNECT_connect1(ok) ==
  /\ hd.pc = "c_connect1"
  /\ IF ok
     THEN hd' = Connected(hd) /\ UNCHANGED dec
     ELSE ConnectBlockCheck(Attempt(hd))
  /\ UNCHANGED <<resolverVars, listVars, flagVars, call, clockVars, lockVars,
                 bl, wlt, req>>
  /\ Ghosts

\* do_CONNECT lines 85-93: _is_blocked has returned
do_CONNECT_blocked ==
  /\ hd.pc = "c_blocked"
  /\ dec.pc = "done"
  /\ IF dec.result
     THEN hd' = Blocked403(hd) /\ dec' = DecIdle
     ELSE /\ hd' = [hd EXCEPT !.pc = "c_whitelist2"]
          /\ dec' = DecCall("is_whitelisted", hd.hostname, FALSE)
  /\ UNCHANGED <<resolverVars, listVars, flagVars, call, clockVars, lockVars,
                 bl, wlt, req>>
  /\ Ghosts

\* a port policy that would apply only while filtering is enabled
do_CONNECT_whitelist2_when_filtering ==
  /\ hd.pc = "c_whitelist2"
  /\ dec.pc = "done"
  /\ dec' = DecIdle
  /\ hd' = IF dec.result THEN [hd EXCEPT !.pc = "c_connect2"]
           ELSE IF /\ config_manager["block_enabled"]
                   /\ config_manager["block_http_other_ports"]
                   /\ hd.target_port \notin VOIP_ALLOWED_PORTS
           THEN Responded(hd, "403")
           ELSE [hd EXCEPT !.pc = "c_connect2", !.allowed_events = @ + 1]
  /\ UNCHANGED <<resolverVars, listVars, flagVars, call, clockVars, lockVars,
                 bl, wlt, req>>
  /\ Ghosts

\* do_CONNECT lines 93-124: the second is_whitelisted has returned; when it
\* says no, the port policy applies and the allowed event is recorded
do_CONNECT_whitelist2 ==
  /\ hd.pc = "c_whitelist2"
  /\ dec.pc = "done"
  /\ dec' = DecIdle
  /\ hd' = IF dec.result THEN [hd EXCEPT !.pc = "c_connect2"]
           ELSE IF /\ config_manager["block_http_other_ports"]
                   /\ hd.target_port \notin VOIP_ALLOWED_PORTS
           THEN Responded(hd, "403")
           ELSE [hd EXCEPT !.pc = "c_connect2", !.allowed_events = @ + 1]
  /\ UNCHANGED <<resolverVars, listVars, flagVars, call, clockVars, lockVars,
                 bl, wlt, req>>
  /\ Ghosts

\* a handler that would announce the tunnel before it connects
do_CONNECT_connect2_announced(ok) ==
  /\ hd.pc = "c_connect2"
  /\ hd' = IF ok THEN [Connected(hd) EXCEPT !.announced = TRUE]
           ELSE Responded([Attempt(hd) EXCEPT !.announced = TRUE], "502")
  /\ UNCHANGED <<resolverVars, listVars, flagVars, call, clockVars, lockVars,
                 bl, wlt, dec, req>>
  /\ Ghosts

\* do_CONNECT lines 96 and 126: connect; lines 111-113 and 140-145: 502 when
\* it fails
do_CONNECT_connect2(ok) ==
  /\ hd.pc = "c_connect2"
  /\ hd' = IF ok THEN Connected(hd) ELSE Responded(Attempt(hd), "502")
  /\ UNCHANGED <<resolverVars, listVars, flagVars, call, clockVars, lockVars,
                 bl, wlt, dec, req>>
  /\ Ghosts

\* do_CONNECT lines 67-69, 97-99, 127-129: send_response(200, "Connection
\* Established"), the Connection header, end_headers
do_CONNECT_announce ==
  /\ hd.pc = "c_announce"
  /\ hd' = [hd EXCEPT !.pc = "c_relay", !.announced = TRUE]
  /\ UNCHANGED <<resolverVars, listVars, flagVars, call, clockVars, lockVars,
                 bl, wlt, dec, req>>
  /\ Ghosts

\* do_CONNECT lines 71-79, 101-109, 131-138: the socket options, then
\* full_duplex_relay, which returns when the tunnel is over
do_CONNECT_relay ==
  /\ hd.pc = "c_relay"
  /\ hd' = Responded([hd EXCEPT !.relayed = TRUE], "200")
  /\ UNCHANGED <<resolverVars, listVars, flagVars, call, clockVars, lockVars,
                 bl, wlt, dec, req>>
  /\ Ghosts

\* _handle_http_method lines 148-161
http_begin(r) ==
  /\ hd.pc = "idle"
  /\ r.method # "CONNECT"
  /\ req' = r
  /\ hd' = [HdIdle EXCEPT !.pc = "h_whitelist", !.hostname = http_hostname(r)]
  /\ HandlerMaybeReload
  /\ dec' = DecCall("is_whitelisted", http_hostname(r), FALSE)
  /\ UNCHANGED <<resolverVars, listVars, flagVars, call, clockVars, lockVars>>
  /\ Ghosts

\* _handle_http_method lines 161-174: is_whitelisted has returned
http_whitelist ==
  /\ hd.pc = "h_whitelist"
  /\ dec.pc = "done"
  /\ IF ~dec.result /\ config_manager["block_enabled"]
     THEN /\ hd' = [hd EXCEPT !.pc = "h_blocked"]
          /\ dec' = DecCall("_is_blocked", hd.hostname, FALSE)
     ELSE /\ hd' = [hd EXCEPT !.pc = "h_target", !.is_whitelisted = dec.result]
          /\ dec' = DecIdle
  /\ UNCHANGED <<resolverVars, listVars, flagVars, call, clockVars, lockVars,
                 bl, wlt, req>>
  /\ Ghosts

\* _handle_http_method lines 174-179: _is_blocked has returned
http_blocked ==
  /\ hd.pc = "h_blocked"
  /\ dec.pc = "done"
  /\ dec' = DecIdle
  /\ hd' = IF dec.result THEN Blocked403(hd) ELSE [hd EXCEPT !.pc = "h_target"]
  /\ UNCHANGED <<resolverVars, listVars, flagVars, call, clockVars, lockVars,
                 bl, wlt, req>>
  /\ Ghosts

\* a handler that would forward a request whose target host is unknown
http_forward_checks_any_target ==
  /\ hd.pc = "h_target"
  /\ LET t == http_target(req)
         h == [hd EXCEPT !.target_host = t.host, !.target_port = t.port]
     IN  hd' = IF /\ ~hd.is_whitelisted
                  /\ config_manager["block_http_other_ports"]
                  /\ t.port \notin VOIP_ALLOWED_PORTS
               THEN Responded(h, "403")
               ELSE IF /\ ~hd.is_whitelisted
                       /\ config_manager["block_enabled"]
                       /\ config_manager["block_http_traffic"]
                       /\ req.scheme = "http"
               THEN Responded(h, "403")
               ELSE [h EXCEPT !.pc = "h_connect", !.allowed_events = @ + 1]
  /\ UNCHANGED <<resolverVars, listVars, flagVars, call, clockVars, lockVars,
                 bl, wlt, dec, req>>
  /\ Ghosts

\* _handle_http_method lines 181-225: the target, the 400, the two
\* policies, the allowed event
http_forward_checks ==
  /\ hd.pc = "h_target"
  /\ LET t == http_target(req)
         h == [hd EXCEPT !.target_host = t.host, !.target_port = t.port]
     IN  hd' = IF t.host = <<>> THEN Responded(h, "400")
               ELSE IF /\ ~hd.is_whitelisted
                       /\ config_manager["block_http_other_ports"]
                       /\ t.port \notin VOIP_ALLOWED_PORTS
               THEN Responded(h, "403")
               ELSE IF /\ ~hd.is_whitelisted
                       /\ config_manager["block_enabled"]
                       /\ config_manager["block_http_traffic"]
                       /\ req.scheme = "http"
               THEN Responded(h, "403")
               ELSE [h EXCEPT !.pc = "h_connect",
                              !.allowed_events =
                                 IF t.host \in {<<"1", "2", "7", ".", "0", ".", "0", ".", "1">>,
                                                <<"l", "o", "c", "a", "l", "h", "o", "s", "t">>}
                                 THEN @ ELSE @ + 1]
  /\ UNCHANGED <<resolverVars, listVars, flagVars, call, clockVars, lockVars,
                 bl, wlt, dec, req>>
  /\ Ghosts

\* _handle_http_method lines 252-287: connect and send the request, then
\* relay; 502 when either fails
http_connect(ok) ==
  /\ hd.pc = "h_connect"
  /\ hd' = Responded(Attempt(hd), IF ok THEN "relay" ELSE "502")
  /\ UNCHANGED <<resolverVars, listVars, flagVars, call, clockVars, lockVars,
                 bl, wlt, dec, req>>
  /\ Ghosts

\* the handler returns; the next request can be served
handler_return ==
  /\ hd.pc = "done"
  /\ hd' = HdIdle
  /\ req' = NoRequest
  /\ UNCHANGED <<resolverVars, listVars, flagVars, call, clockVars, lockVars,
                 bl, wlt, dec>>
  /\ Ghosts

\* a flag is set through the API between two requests
SetFlagIdle(name, value) ==
  /\ hd.pc = "idle"
  /\ config_manager[name] # value
  /\ SetFlag(name, value)

ProxyFlags == {"block_enabled", "block_http_traffic", "block_http_other_ports"}

NextProxy ==
  \/ \E r \in ConnectRequests : do_CONNECT_begin(r)
  \/ do_CONNECT_whitelist1
  \/ \E ok \in BOOLEAN : do_CONNECT_connect1(ok)
  \/ do_CONNECT_blocked
  \/ do_CONNECT_whitelist2
  \/ \E ok \in BOOLEAN : do_CONNECT_connect2(ok)
  \/ do_CONNECT_announce
  \/ do_CONNECT_relay
  \/ \E r \in HttpRequests : http_begin(r)
  \/ http_whitelist
  \/ http_blocked
  \/ http_forward_checks
  \/ \E ok \in BOOLEAN : http_connect(ok)
  \/ handler_return
  \/ \E n \in ProxyFlags, v \in BOOLEAN : SetFlagIdle(n, v)
  \/ dec_whitelist
  \/ dec_direct_ip
  \/ dec_blocklist
  \/ Loaders
  \/ Tick

\* after construction: the blocklist sources answered, the whitelist source
\* did not; the first reload brings the whitelist in
InitProxy ==
  /\ blocked_domains = BlocklistOf(1..Len(blocklist_urls))
  /\ whitelisted_domains_local = {}
  /\ whitelisted_networks = {}
  /\ whitelisted_domains = {}
  /\ manual_blocked_domains = {}
  /\ settings = [n \in FlagNames |-> TRUE]
  /\ config_manager = settings
  /\ block_ip_direct = TRUE
  /\ call = NoCall
  /\ ReloadIdle
  /\ ProxyIdle

SpecProxy == InitProxy /\ [][NextProxy]_vars

(***************************************************************************)
(* The observers of the flags: ConfigManager.add_change_callback,          *)
(* remove_change_callback, the property setters and _notify_changes.       *)
(***************************************************************************)
Observers == {"o1", "o2", "o3"}

Range(q) == {q[i] : i \in 1..Len(q)}

RECURSIVE Without(_, _)
Without(q, x) ==
  IF q = <<>> THEN <<>>
  ELSE IF Head(q) = x THEN Without(Tail(q), x)
  ELSE <<Head(q)>> \o Without(Tail(q), x)

nonObsVars ==
  <<resolverVars, listVars, settings, block_ip_direct, call, clockVars,
    lockVars, bl, wlt, dec, dec_atomic, returned, rl, web, proxyVars, hist>>

\* ConfigManager.add_change_callback
add_change_callback(callback) ==
  /\ callback \notin Range(obs.callbacks)
  /\ obs' = [obs EXCEPT !.callbacks = Append(@, callback)]
  /\ UNCHANGED <<nonObsVars, config_manager>>

\* ConfigManager.remove_change_callback
remove_change_callback(callback) ==
  /\ callback \in Range(obs.callbacks)
  /\ obs' = [obs EXCEPT !.callbacks = Without(@, callback)]
  /\ UNCHANGED <<nonObsVars, config_manager>>

\* the loop of _notify_changes over a copy of the list: each callback is
\* called; when one in raising raises, the except clause (guarded) prints
\* and the loop goes on, and without it the exception ends the loop
RECURSIVE CallEach(_, _, _)
CallEach(callbacks, raising, guarded) ==
  IF callbacks = <<>> THEN [calls |-> <<>>, raised |-> FALSE]
  ELSE IF Head(callbacks) \in raising /\ ~guarded
  THEN [calls |-> <<Head(callbacks)>>, raised |-> TRUE]
  ELSE LET rest == CallEach(Tail(callbacks), raising, guarded)
       IN  [calls |-> <<Head(callbacks)>> \o rest.calls, raised |-> rest.raised]

\* a notification without the try around the call
notify_changes_unguarded(callbacks, raising) == CallEach(callbacks, raising, FALSE)

\* ConfigManager._notify_changes
notify_changes(callbacks, raising) == CallEach(callbacks, raising, TRUE)

\* a property setter of ConfigManager: the value is stored, then the
\* observers are notified when it differs from the old one; the observers
\* in raising raise when called
set_flag(name, value, raising) ==
  /\ obs.last.name = "none"
  /\ config_manager' = [config_manager EXCEPT ![name] = value]
  /\ LET old == config_manager[name]
         r == IF old # value THEN notify_changes(obs.callbacks, raising)
              ELSE [calls |-> <<>>, raised |-> FALSE]
     IN  obs' = [obs EXCEPT !.last = [name |-> name, old |-> old, value |-> value,
                                      registered |-> obs.callbacks,
                                      raising |-> raising,
                                      calls |-> r.calls,
                                      returned |-> ~r.raised]]
  /\ UNCHANGED nonObsVars

\* the writer goes on after the setter
writer_continues ==
  /\ obs.last.name # "none"
  /\ obs' = [obs EXCEPT !.last = NoWrite]
  /\ UNCHANGED <<nonObsVars, config_manager>>

NextObservers ==
  \/ \E o \in Observers : add_change_callback(o)
  \/ \E o \in Observers : remove_change_callback(o)
  \/ \E n \in FlagNames, v \in BOOLEAN, raising \in SUBSET Observers :
        set_flag(n, v, raising)
  \/ writer_continues

InitObservers == InitProxy

SpecObservers == InitObservers /\ [][NextObservers]_vars


(***************************************************************************)
(* The relay: full_duplex_relay and its two _relay_worker threads, the     *)
(* handler that calls it, and the two peers.                               *)
(***************************************************************************)
MaxBytes == 2

nonRelayVars ==
  <<resolverVars, listVars, flagVars, call, clockVars, lockVars, bl, wlt, dec,
    dec_atomic, returned, obs, web, proxyVars, hist>>

\* the handler has connected upstream and calls full_duplex_relay
\* (do_CONNECT lines 78, 108, 138; _handle_http_method line 274)
handler_calls_relay(caller) ==
  /\ rl.pc = "idle"
  /\ rl' = [rl EXCEPT !.pc = "start_t1", !.caller = caller]
  /\ UNCHANGED nonRelayVars

\* full_duplex_relay lines 63-66: t1.start(), then t2.start()
relay_start(w) ==
  /\ rl.pc = "start_" \o w
  /\ rl' = [rl EXCEPT !.pc = IF w = "t1" THEN "start_t2" ELSE "join_t1",
                      !.wk[w].pc = "loop"]
  /\ UNCHANGED nonRelayVars

\* a join that would give up waiting
relay_join_timeout(w) ==
  /\ rl.pc = "join_" \o w
  /\ rl' = [rl EXCEPT !.pc = IF w = "t1" THEN "join_t2" ELSE "close_a"]
  /\ UNCHANGED nonRelayVars

\* full_duplex_relay lines 68-69: t1.join(), then t2.join(), without timeout
relay_join(w) ==
  /\ rl.pc = "join_" \o w
  /\ rl.wk[w].pc = "finished"
  /\ rl' = [rl EXCEPT !.pc = IF w = "t1" THEN "join_t2" ELSE "close_a"]
  /\ UNCHANGED nonRelayVars

\* full_duplex_relay lines 71-78: a_sock.close(), then b_sock.close(), then
\* the return to the handler
relay_close(s) ==
  /\ rl.pc = "close_" \o (IF s = "a_sock" THEN "a" ELSE "b")
  /\ rl' = [rl EXCEPT !.pc = IF s = "a_sock" THEN "close_b" ELSE "after",
                      !.closed[s] = TRUE]
  /\ UNCHANGED nonRelayVars

\* do_CONNECT returns after the relay (line 79); _handle_http_method closes
\* remote once more (lines 275-278) and returns
handler_after_relay ==
  /\ rl.pc = "after"
  /\ rl' = [rl EXCEPT !.pc = "returned",
                      !.closed["b_sock"] = @ \/ rl.caller = "HTTP"]
  /\ UNCHANGED nonRelayVars

\* _relay_worker line 34: the loop test, while not _SHUTDOWN_EVENT.is_set()
relay_worker_test(w) ==
  /\ rl.wk[w].pc = "loop"
  /\ IF rl.shutdown
     THEN rl' = [rl EXCEPT !.wk[w].pc = "finally", !.wk[w].ended = "shutdown"]
     ELSE rl' = [rl EXCEPT !.wk[w].pc = "recv"]
  /\ UNCHANGED nonRelayVars

\* a recv that the shutdown signal would wake up
relay_worker_recv_interruptible(w) ==
  /\ rl.wk[w].pc = "recv"
  /\ IF rl.shutdown \/ rl.closed[src(w)] \/ rl.reset[src(w)]
     THEN rl' = [rl EXCEPT !.wk[w].pc = "finally",
                           !.wk[w].ended = IF rl.shutdown THEN "shutdown"
                                           ELSE "recv_error"]
     ELSE IF rl.rx[src(w)] # <<>>
     THEN \E k \in 1..Len(rl.rx[src(w)]) :
            rl' = [rl EXCEPT !.wk[w].pc = "send",
                             !.wk[w].data = SubSeq(rl.rx[src(w)], 1, k),
                             !.rd[src(w)] = @ \o SubSeq(rl.rx[src(w)], 1, k),
                             !.rx[src(w)] = SubSeq(@, k + 1, Len(@))]
     ELSE /\ rl.fin[src(w)]
          /\ rl' = [rl EXCEPT !.wk[w].pc = "eof", !.wk[w].ended = "eof"]
  /\ UNCHANGED nonRelayVars

\* _relay_worker lines 35-44: src.recv; it blocks while nothing has arrived
\* and the peer has not shut down, whatever the shutdown signal
relay_worker_recv(w) ==
  /\ rl.wk[w].pc = "recv"
  /\ IF rl.closed[src(w)] \/ rl.reset[src(w)]
     THEN rl' = [rl EXCEPT !.wk[w].pc = "finally",
                           !.wk[w].ended = "recv_error"]
     ELSE IF rl.rx[src(w)] # <<>>
     THEN \E k \in 1..Len(rl.rx[src(w)]) :
            rl' = [rl EXCEPT !.wk[w].pc = "send",
                             !.wk[w].data = SubSeq(rl.rx[src(w)], 1, k),
                             !.rd[src(w)] = @ \o SubSeq(rl.rx[src(w)], 1, k),
                             !.rx[src(w)] = SubSeq(@, k + 1, Len(@))]
     ELSE /\ rl.fin[src(w)]
          /\ rl' = [rl EXCEPT !.wk[w].pc = "eof", !.wk[w].ended = "eof"]
  /\ UNCHANGED nonRelayVars

\* _relay_worker lines 39-44: on end of stream, dst.shutdown(SHUT_WR)
relay_worker_eof(w) ==
  /\ rl.wk[w].pc = "eof"
  /\ rl' = [rl EXCEPT !.wk[w].pc = "finally",
                      !.wr_shut[dst(w)] = @ \/ ~rl.closed[dst(w)]]
  /\ UNCHANGED nonRelayVars

\* a worker that would call send once where the code calls sendall: one
\* byte of the buffer goes out
relay_worker_send_once(w) ==
  /\ rl.wk[w].pc = "send"
  /\ IF rl.closed[dst(w)] \/ rl.reset[dst(w)] \/ rl.wr_shut[dst(w)]
     THEN rl' = [rl EXCEPT !.wk[w] = [pc |-> "finally", data |-> <<>>,
                                      ended |-> "send_error"]]
     ELSE /\ ~rl.stall[dst(w)]
          /\ rl' = [rl EXCEPT !.wk[w].pc = "loop", !.wk[w].data = <<>>,
                              !.tx[dst(w)] = @ \o SubSeq(rl.wk[w].data, 1, 1)]
  /\ UNCHANGED nonRelayVars

\* _relay_worker lines 45-48: dst.sendall(data) on a blocking socket without
\* timeout (proxy_server.py lines 134-137, 258-261); it blocks while the peer does not
\* take the data; a failure ends the loop
relay_worker_send(w) ==
  /\ rl.wk[w].pc = "send"
  /\ IF rl.closed[dst(w)] \/ rl.reset[dst(w)] \/ rl.wr_shut[dst(w)]
     THEN rl' = [rl EXCEPT !.wk[w] = [pc |-> "finally", data |-> <<>>,
                                      ended |-> "send_error"]]
     ELSE /\ ~rl.stall[dst(w)]
          /\ rl' = [rl EXCEPT !.wk[w].pc = "loop", !.wk[w].data = <<>>,
                              !.tx[dst(w)] = @ \o rl.wk[w].data]
  /\ UNCHANGED nonRelayVars

\* a worker that would close its destination when it ends
relay_worker_finally_close(w) ==
  /\ rl.wk[w].pc = "finally"
  /\ rl' = [rl EXCEPT !.wk[w].pc = "finished",
                      !.closed[dst(w)] = TRUE]
  /\ UNCHANGED nonRelayVars

\* _relay_worker lines 51-55: finally, dst.shutdown(SHUT_WR)
relay_worker_finally(w) ==
  /\ rl.wk[w].pc = "finally"
  /\ rl' = [rl EXCEPT !.wk[w].pc = "finished",
                      !.wr_shut[dst(w)] = @ \/ ~rl.closed[dst(w)]]
  /\ UNCHANGED nonRelayVars

\* the peer of socket s sends one more byte
peer_send(s) ==
  /\ rl.pc \notin {"idle", "returned"}
  /\ ~rl.fin[s] /\ ~rl.reset[s] /\ ~rl.closed[s]
  /\ Len(rl.sent[s]) < MaxBytes
  /\ LET w == IF s = "a_sock" THEN "t2" ELSE "t1"
     IN  rl' = [rl EXCEPT !.rx[s] = Append(@, Len(rl.sent[s]) + 1),
                          !.sent[s] = Append(@, Len(rl.sent[s]) + 1),
                          !.late[s] = @ \/ rl.wk[w].pc = "finished"]
  /\ UNCHANGED nonRelayVars

\* the peer of socket s shuts its sending side: end of stream after what it
\* has sent
peer_shutdown(s) ==
  /\ rl.pc \notin {"idle", "returned"}
  /\ ~rl.fin[s] /\ ~rl.reset[s] /\ ~rl.closed[s]
  /\ rl' = [rl EXCEPT !.fin[s] = TRUE]
  /\ UNCHANGED nonRelayVars

\* the connection of socket s is reset: recv and sendall raise from now on
peer_reset(s) ==
  /\ rl.pc \notin {"idle", "returned"}
  /\ ~rl.reset[s] /\ ~rl.closed[s]
  /\ rl' = [rl EXCEPT !.reset[s] = TRUE, !.rx[s] = <<>>]
  /\ UNCHANGED nonRelayVars

\* _SHUTDOWN_EVENT.set() (system_tray.py line 221)
set_shutdown_event ==
  /\ rl.pc \notin {"idle", "returned"}
  /\ ~rl.shutdown
  /\ rl' = [rl EXCEPT !.shutdown = TRUE]
  /\ UNCHANGED nonRelayVars

\* the next connection
relay_next ==
  /\ rl.pc = "returned"
  /\ rl' = RelayIdle
  /\ UNCHANGED nonRelayVars

WorkerStep(w) ==
  \/ relay_worker_test(w)
  \/ relay_worker_recv(w)
  \/ relay_worker_eof(w)
  \/ relay_worker_send(w)
  \/ relay_worker_finally(w)

MainStep ==
  \/ \E w \in Workers : relay_start(w)
  \/ \E w \in Workers : relay_join(w)
  \/ \E s \in Socks : relay_close(s)
  \/ handler_after_relay

NextRelay ==
  \/ \E c \in {"CONNECT", "HTTP"} : handler_calls_relay(c)
  \/ \E w \in Workers : relay_start(w)
  \/ \E w \in Workers : relay_join(w)
  \/ \E s \in Socks : relay_close(s)
  \/ handler_after_relay
  \/ \E w \in Workers : relay_worker_test(w)
  \/ \E w \in Workers : relay_worker_recv(w)
  \/ \E w \in Workers : relay_worker_eof(w)
  \/ \E w \in Workers : relay_worker_send(w)
  \/ \E w \in Workers : relay_worker_finally(w)
  \/ \E s \in Socks : peer_send(s)
  \/ \E s \in Socks : peer_shutdown(s)
  \/ \E s \in Socks : peer_reset(s)
  \/ set_shutdown_event
  \/ relay_next

InitRelay == InitProxy

SpecRelay == InitRelay /\ [][NextRelay]_vars

\* the threads that were started are scheduled, and so is the thread of the
\* handler
SpecRelayFair ==
  /\ SpecRelay
  /\ \A w \in Workers : WF_vars(WorkerStep(w))
  /\ WF_vars(MainStep)

(***************************************************************************)
(* The dashboard's API (web/api_settings_handlers.py,                      *)
(* web/api_domains_handlers.py) next to the reloads it starts.             *)
(***************************************************************************)
\* the 'domain' fields of the request bodies
ApiDomains == {<<"1", ".", "2", ".", "9", ".", "9", ".">>, <<"-">>}
ListTypes == {"blocked", "allowed"}

\* data['domain'].strip().lower().strip('.')
ApiNormalize(s) == RStripSet(LStripSet(Lower(Strip(s)), {"."}), {"."})

IsAlnum(c) == IsDigit(c) \/ \E i \in 1..Len(LowerSeq) : LowerSeq[i] = c

\* one label of the pattern: [a-z0-9]([a-z0-9\-]*[a-z0-9])?
LabelOk(l) ==
  /\ l # <<>>
  /\ IsAlnum(l[1])
  /\ IsAlnum(l[Len(l)])
  /\ \A i \in 1..Len(l) : IsAlnum(l[i]) \/ l[i] = "-"

\* api_domains_handlers.validate_domain
validate_domain(domain) ==
  LET d == ApiNormalize(domain)
      labels == Split(d, ".")
  IN  /\ d # <<>>
      /\ Len(d) <= 253
      /\ \A i \in 1..Len(labels) : LabelOk(labels[i])

\* handle_domains_add, POST /api/domains/add: under _CONFIG_LOCK the entry
\* moves into one of the two sets of the settings module; an invalid domain
\* is answered 400.  The sets are then written to custom.cfg
handle_domains_add(domain, list_type) ==
  LET d == ApiNormalize(domain)
  IN  /\ IF ~validate_domain(d)
         THEN UNCHANGED <<listVars, web>>
         ELSE IF list_type = "blocked"
         THEN /\ whitelisted_domains' = whitelisted_domains \ {d}
              /\ manual_blocked_domains' = manual_blocked_domains \cup {d}
              /\ web' = [web EXCEPT !.manual = @ \ {d}, !.fresh = {}]
         ELSE /\ manual_blocked_domains' = manual_blocked_domains \ {d}
              /\ whitelisted_domains' = whitelisted_domains \cup {d}
              /\ web' = [web EXCEPT !.manual = @ \cup {d}, !.fresh = {}]
      /\ UNCHANGED <<resolverVars, flagVars, call, clockVars, lockVars, bl, wlt,
                     dec, dec_atomic, returned, rl, obs, proxyVars, hist>>

\* the state handle_protection_toggle writes: the one of the body, or the
\* opposite of the current one
ToggleValue(explicit, value) ==
  IF explicit THEN value ELSE ~config_manager["block_enabled"]

\* handle_protection_toggle, POST /api/protection/toggle: the flag is written
\* to ConfigManager, custom.cfg is written, and reload_config_action takes
\* the flags back from the settings module and starts both reloads.  When
\* custom.cfg cannot be written the reload is not reached
handle_protection_toggle(explicit, value, persisted, B, W) ==
  /\ IF persisted
     THEN /\ config_manager' = settings
          /\ \E t1 \in B, t2 \in W : StartBoth(t1, t2)
     ELSE /\ config_manager' =
               [config_manager EXCEPT
                  !["block_enabled"] = ToggleValue(explicit, value)]
          /\ UNCHANGED <<bl, wlt>>
  /\ UNCHANGED <<resolverVars, listVars, settings, block_ip_direct, call,
                 clockVars, lockVars, dec>>
  /\ UNCHANGED proxyVars
  /\ Ghosts

\* the remote whitelist source starts serving another document
whitelist_source_changes ==
  /\ \E v \in Versions \ {web.doc} : web' = [web EXCEPT !.doc = v, !.fresh = {}]
  /\ UNCHANGED <<resolverVars, listVars, flagVars, call, clockVars, lockVars,
                 bl, wlt, dec, dec_atomic, returned, rl, obs, proxyVars, hist>>

NextApi ==
  \/ Loaders
  \/ \E explicit \in BOOLEAN, value \in BOOLEAN, persisted \in BOOLEAN :
       handle_protection_toggle(explicit, value, persisted, {"b1"}, {"w1"})
  \/ \E domain \in ApiDomains, list_type \in ListTypes :
       handle_domains_add(domain, list_type)
  \/ whitelist_source_changes

InitApi == InitReload

SpecApi == InitApi /\ [][NextApi]_vars

(***************************************************************************)
(* One reload of each list at a time, started by reload_config_action,     *)
(* with nothing else running: the retry loops on their own.  A started     *)
(* thread keeps being scheduled.                                           *)
(***************************************************************************)
NextRetry ==
  \/ Loaders
  \/ reload_config_action({"b1"}, {"w1"})

InitRetry == InitReload

SpecRetry == InitRetry /\ [][NextRetry]_vars

SpecRetryFair == SpecRetry /\ WF_vars(Loaders)

(***************************************************************************)
(* is_whitelisted asked about literal IPs while the lists are reloaded:    *)
(* any whitelist the loader can have installed, one reload of each list    *)
(* at a time.                                                              *)
(***************************************************************************)
SpelledIps == IpHosts \cup {<<"1", ".", "2", ".", "3", ".", "4", " ">>}

InitIp ==
  /\ blocked_domains = BlocklistOf(1..Len(blocklist_urls))
  /\ whitelisted_domains_local \in SmallSubsets(WlEntries)
  /\ whitelisted_networks \in SmallSubsets(WlNetworks)
  /\ whitelisted_domains = whitelisted_domains_local
  /\ manual_blocked_domains = {}
  /\ settings = [n \in FlagNames |-> TRUE]
  /\ config_manager = settings
  /\ block_ip_direct = TRUE
  /\ call = NoCall
  /\ ReloadIdle
  /\ ProxyIdle

NextIp ==
  \/ \E h \in SpelledIps : dec_start("is_whitelisted", h)
  \/ dec_whitelist
  \/ dec_return
  \/ reload_config_action({"b1"}, {"w1"})
  \/ Loaders

SpecIp == InitIp /\ [][NextIp]_vars

(***************************************************************************)
(* The relay with peers that may stop reading (SpecRelayStall).            *)
(***************************************************************************)
\* the peer of socket s stops reading with its receive window full: from
\* now on sendall on s blocks, until the connection fails
peer_stall(s) ==
  /\ rl.pc \notin {"idle", "returned"}
  /\ ~rl.stall[s] /\ ~rl.reset[s] /\ ~rl.closed[s]
  /\ rl' = [rl EXCEPT !.stall[s] = TRUE]
  /\ UNCHANGED nonRelayVars

NextRelayStall ==
  \/ \E c \in {"CONNECT", "HTTP"} : handler_calls_relay(c)
  \/ \E w \in Workers : relay_start(w)
  \/ \E w \in Workers : relay_join(w)
  \/ \E s \in Socks : relay_close(s)
  \/ handler_after_relay
  \/ \E w \in Workers : relay_worker_test(w)
  \/ \E w \in Workers : relay_worker_recv(w)
  \/ \E w \in Workers : relay_worker_eof(w)
  \/ \E w \in Workers : relay_worker_send(w)
  \/ \E w \in Workers : relay_worker_finally(w)
  \/ \E s \in Socks : peer_send(s)
  \/ \E s \in Socks : peer_shutdown(s)
  \/ \E s \in Socks : peer_reset(s)
  \/ \E s \in Socks : peer_stall(s)
  \/ relay_next

InitRelayStall == InitProxy

SpecRelayStall == InitRelayStall /\ [][NextRelayStall]_vars

\* the threads that were started are scheduled, and so is the thread of the
\* handler
SpecRelayStallFair ==
  /\ SpecRelayStall
  /\ \A w \in Workers : WF_vars(WorkerStep(w))
  /\ WF_vars(MainStep)

(***************************************************************************)
(* Reloads that can also end by an unexpected exception (SpecLoading).     *)
(***************************************************************************)
\* an exception that would leave _load_blocklist without passing through
\* the finally clause and the end of the with block
load_blocklist_raise_unreleased(t) ==
  /\ bl[t].pc = "fetch"
  /\ bl[t].i = 1
  /\ bl[t].attempt = 0
  /\ bl' = [bl EXCEPT ![t] = BlIdle]
  /\ UNCHANGED <<resolverVars, listVars, flagVars, call, clockVars, lockVars,
                 wlt, dec>>
  /\ UNCHANGED proxyVars
  /\ Ghosts

\* lines 64-66, 124-125: building the PoolManager or its SSL context raises
\* before the first download; the outer except logs, and the load goes on
\* to its finally clause without having installed anything
load_blocklist_raise(t) ==
  /\ bl[t].pc = "fetch"
  /\ bl[t].i = 1
  /\ bl[t].attempt = 0
  /\ bl' = [bl EXCEPT ![t].pc = "finish"]
  /\ UNCHANGED <<resolverVars, listVars, flagVars, call, clockVars, lockVars,
                 wlt, dec>>
  /\ UNCHANGED proxyVars
  /\ Ghosts

NextLoading ==
  \/ Loaders
  \/ \E t \in BlThreads : load_blocklist_raise(t)
  \/ maybe_reload_background(BlThreads, {"w1"})
  \/ reload_config_action(BlThreads, {"w1"})
  \/ Tick

InitLoading == InitReload

SpecLoading == InitLoading /\ [][NextLoading]_vars

(***************************************************************************)
(* Every writer of the flags, with the observers registered                *)
(* (SpecNotify): the property setters, and the two bulk updates.           *)
(***************************************************************************)
\* what protection_settings.json may hold: some of the flags, or all
SettingsFiles ==
  {[n \in {"block_enabled"} |-> FALSE],
   [n \in FlagNames |-> n = "block_ip_direct"],
   [n \in FlagNames |-> TRUE]}

\* settings_data.get(name, True)
settings_data_get(settings_data, name) ==
  IF name \in DOMAIN settings_data THEN settings_data[name] ELSE TRUE

\* ConfigManager.load_from_file with the file present: the private
\* attributes are assigned from the file
load_from_file(settings_data) ==
  /\ obs.last.name = "none"
  /\ config_manager' = [n \in FlagNames |-> settings_data_get(settings_data, n)]
  /\ UNCHANGED <<nonObsVars, obs>>

\* ConfigManager.update_from_legacy_settings, called between two writes
legacy_update ==
  /\ obs.last.name = "none"
  /\ update_from_legacy_settings

NextNotify ==
  \/ \E o \in Observers : add_change_callback(o)
  \/ \E o \in Observers : remove_change_callback(o)
  \/ \E n \in FlagNames, v \in BOOLEAN : set_flag(n, v, {})
  \/ writer_continues
  \/ legacy_update
  \/ \E f \in SettingsFiles : load_from_file(f)

InitNotify == InitProxy

SpecNotify == InitNotify /\ [][NextNotify]_vars

(***************************************************************************)
(* The headers _handle_http_method forwards (SpecForward).  A header is a  *)
(* pair <<name, value>>, self.headers.items() is the list of them in the   *)
(* order received; a forwarded line is the string "name: value".           *)
(***************************************************************************)
MaxHeaders == 3

HeaderSample ==
  {<<<<"H", "o", "s", "t">>, <<"x", ".", "y", ":", "8", "1">>>>,
   <<<<"h", "O", "S", "T">>, <<"T", ".", "n">>>>,
   <<<<"C", "o", "n", "n", "e", "c", "t", "i", "o", "n">>, <<"x">>>>,
   <<<<"P", "R", "O", "X", "Y", "-", "c", "o", "n", "n", "e", "c", "t", "i", "o", "n">>, <<"x">>>>,
   <<<<"T", "e">>, <<"x">>>>,
   <<<<"T", "e", "a">>, <<"1">>>>,
   <<<<"A">>, <<"1">>>>,
   <<<<"C", "o", "n", "n", "e", "c", "t", "i", "o", "n", "-", "x">>, <<"2">>>>}

HeaderLists == UNION {[1..n -> HeaderSample] : n \in 0..MaxHeaders}

\* the request targets the headers arrive with: absolute http and https
\* URIs with and without a port, and an origin-form path
ForwardTargets ==
  {[scheme |-> "http", url_host |-> Chars_t_n, url_port |-> 0],
   [scheme |-> "https", url_host |-> <<"T", ".", "n">>, url_port |-> 0],
   [scheme |-> "http", url_host |-> Chars_x_y, url_port |-> 81],
   [scheme |-> "https", url_host |-> Chars_t_n, url_port |-> 80],
   [scheme |-> "none", url_host |-> <<>>, url_port |-> 0]}

\* self.headers.get('Host', ''): the value of the first header of that
\* name, whatever its case
headers_get_host(headers) ==
  LET at == {i \in 1..Len(headers) : Lower(headers[i][1]) = <<"h", "o", "s", "t">>}
  IN  IF at = {} THEN <<>>
      ELSE headers[CHOOSE i \in at : \A j \in at : i <= j][2]

\* the request the handler reads from a target and a list of headers
ForwardRequest(t, headers) ==
  [NoRequest EXCEPT !.method = "GET", !.scheme = t.scheme,
                    !.url_host = t.url_host, !.url_port = t.url_port,
                    !.host_hdr = headers_get_host(headers)]

\* str(n) for a non-negative int
RECURSIVE str_int(_)
str_int(n) ==
  IF n < 10 THEN <<DigitSeq[n + 1]>>
  ELSE str_int(n \div 10) \o <<DigitSeq[(n % 10) + 1]>>

hop_by_hop ==
  {<<"p", "r", "o", "x", "y", "-", "c", "o", "n", "n", "e", "c", "t", "i", "o", "n">>,
   <<"c", "o", "n", "n", "e", "c", "t", "i", "o", "n">>,
   <<"k", "e", "e", "p", "-", "a", "l", "i", "v", "e">>,
   <<"t", "r", "a", "n", "s", "f", "e", "r", "-", "e", "n", "c", "o", "d", "i", "n", "g">>,
   <<"t", "e">>,
   <<"t", "r", "a", "i", "l", "e", "r", "s">>,
   <<"u", "p", "g", "r", "a", "d", "e">>,
   <<"p", "r", "o", "x", "y", "-", "a", "u", "t", "h", "o", "r", "i", "z", "a", "t", "i", "o", "n">>}

\* a Host value that never names the port
host_header_value_bare(scheme, target_host, target_port) == target_host

\* lines 230-232
host_header_value(scheme, target_host, target_port) ==
  IF (scheme = "http" /\ target_port # 80) \/ (scheme = "https" /\ target_port # 443)
  THEN target_host \o <<":">> \o str_int(target_port)
  ELSE target_host

\* lines 234-243: the loop over self.headers.items()
RECURSIVE header_loop(_, _)
header_loop(headers, host_value) ==
  IF headers = <<>> THEN <<>>
  ELSE LET k == Head(headers)[1]
           v == Head(headers)[2]
           rest == header_loop(Tail(headers), host_value)
       IN  IF Lower(k) \in hop_by_hop THEN rest
           ELSE IF Lower(k) = <<"h", "o", "s", "t">>
           THEN <<(<<"H", "o", "s", "t", ":", " ">> \o host_value)>> \o rest
           ELSE <<(k \o <<":", " ">> \o v)>> \o rest

ConnectionPrefix == <<"c", "o", "n", "n", "e", "c", "t", "i", "o", "n", ":">>
ConnectionClose ==
  <<"C", "o", "n", "n", "e", "c", "t", "i", "o", "n", ":", " ", "c", "l", "o", "s", "e">>

\* lines 227-246: header_lines as it is joined into the request
header_lines(headers, scheme, target_host, target_port) ==
  LET looped == header_loop(headers, host_header_value(scheme, target_host, target_port))
      NotConnection(line) == ~StartsWith(Lower(line), ConnectionPrefix)
  IN  SelectSeq(looped, NotConnection) \o <<ConnectionClose>>

\* the scheme lines 183-203 leave: the URI's, or "http"
http_scheme(r) == IF startswith_http(r) THEN r.scheme ELSE "http"

\* _handle_http_method builds the headers of a request it forwards: the
\* target is known (line 205) and no check has answered 403
build_headers(t, headers) ==
  LET r == ForwardRequest(t, headers)
      target == http_target(r)
  IN  /\ call = NoCall
      /\ target.host # <<>>
      /\ call' = [fn |-> "header_lines", hostname |-> target.host,
                  result |-> header_lines(headers, http_scheme(r), target.host, target.port),
                  fault |-> "none", headers |-> headers,
                  scheme |-> http_scheme(r), port |-> target.port]
      /\ UNCHANGED <<resolverVars, listVars, flagVars>>
      /\ UNCHANGED <<reloadVars, proxyVars, hist>>

InitForward == InitProxy

NextForward == \E t \in ForwardTargets, headers \in HeaderLists : build_headers(t, headers)

SpecForward == InitForward /\ [][NextForward]_vars

(***************************************************************************)
(* Properties of the matching functions (SpecResolve).                     *)
(* A hostname is taken in the form the resolver matches on: trimmed,       *)
(* lowercased, trailing dots removed.                                      *)
(***************************************************************************)
\* the proper right-aligned label suffixes of h: what follows one of its dots
ProperLabelSuffixesOf(h) ==
  {SubSeq(h, i + 1, Len(h)) : i \in {j \in 1..Len(h) : h[j] = "."}}

SomeSuffixWhitelisted(h) ==
  h \in whitelisted_domains_local
    \/ \E s \in ProperLabelSuffixesOf(h) : s \in whitelisted_domains_local

IpWhitelisted(h) ==
  looks_like_ip(h)
    /\ (h \in whitelisted_domains_local
          \/ \E net \in whitelisted_networks : InNetwork(ip_address(h), net))

AllBlocked == blocked_domains \cup manual_blocked_domains

\* C1 as claimed: whenever the hostname or one of its right-aligned label
\* suffixes is in the whitelist domain set, or the hostname is a literal IP
\* in the whitelist domain set or in a whitelisted network, _is_blocked
\* returns false.
C1_AsClaimed ==
  call.fn = "_is_blocked" =>
    LET h == Normalize(call.hostname)
    IN  (h # <<>> /\ (SomeSuffixWhitelisted(h) \/ IpWhitelisted(h)))
          => call.result = FALSE

\* C1 amended: whenever the hostname is not a literal IP and it or one of
\* its right-aligned label suffixes is in the whitelist domain set, or the
\* hostname is a literal IP that is in the whitelist domain set or inside a
\* whitelisted network, _is_blocked returns false, whatever the blocked
\* sets hold.
C1_WhitelistPriority ==
  call.fn = "_is_blocked" =>
    LET h == Normalize(call.hostname)
    IN  (h # <<>> /\ ((~looks_like_ip(h) /\ SomeSuffixWhitelisted(h))
                        \/ IpWhitelisted(h)))
          => call.result = FALSE

\* a host name whitelisted through a parent suffix and itself in the
\* blocked set was asked about, and was not blocked
C1_Witness ==
  /\ call.fn = "_is_blocked"
  /\ ~looks_like_ip(Normalize(call.hostname))
  /\ Normalize(call.hostname) \notin whitelisted_domains_local
  /\ SomeSuffixWhitelisted(Normalize(call.hostname))
  /\ Normalize(call.hostname) \in AllBlocked
  /\ call.result = FALSE

\* C7 as claimed: for a literal IP that is not whitelisted, _is_blocked
\* returns the value the policy store holds for block_ip_direct, that is
\* the last value written to it.
C7_AsClaimed ==
  call.fn = "_is_blocked" =>
    LET h == Normalize(call.hostname)
    IN  (looks_like_ip(h) /\ ~IpWhitelisted(h) /\ h \notin whitelisted_domains)
          => call.result = config_manager["block_ip_direct"]

\* C8: for a host name that is not a literal IP and is not whitelisted,
\* _is_blocked is true exactly when the name itself, or a proper
\* right-aligned label suffix of it with at least 3 characters and a dot, is
\* in blocked_domains or manual_blocked_domains.
C8_ParentDomainBlocking ==
  call.fn = "_is_blocked" =>
    LET h == Normalize(call.hostname)
    IN  (h # <<>> /\ ~looks_like_ip(h) /\ ~SomeSuffixWhitelisted(h))
          => (call.result <=>
                \/ h \in AllBlocked
                \/ \E s \in ProperLabelSuffixesOf(h) :
                     Len(s) >= 3 /\ Contains(s, ".") /\ s \in AllBlocked)

\* a name that is not itself listed was blocked through a listed parent
C8_Witness ==
  /\ call.fn = "_is_blocked"
  /\ ~looks_like_ip(Normalize(call.hostname))
  /\ ~SomeSuffixWhitelisted(Normalize(call.hostname))
  /\ Normalize(call.hostname) \notin AllBlocked
  /\ call.result = TRUE

(***************************************************************************)
(* Reloads.                                                                *)
(***************************************************************************)
BlInFlight == {t \in BlThreads : bl[t].pc \in {"fetch", "swap", "store", "finish"}}
WlInFlight == {t \in WlThreads : wlt[t].pc \in {"fetch", "swap", "store", "update"}}

\* thread t installs its candidate set in this step
Installs(t) == bl[t].pc = "store" /\ bl'[t].pc = "finish"

\* C4 as claimed: a reload in which every blocklist source failed all of
\* its attempts leaves the blocked-domain set as it was before the reload.
C4_AsClaimed ==
  [][\A t \in BlThreads :
       (Installs(t) /\ bl[t].ok = {}) => blocked_domains' = blocked_domains]_vars

\* C5: the installed blocked set changes only in the one step in which a
\* loader that has been through all its sources replaces it by its complete
\* candidate (the domains of the sources that answered); no step of a loader
\* that is still building its candidate touches the installed set, and the
\* blocklist step of a decision reads the installed set and leaves it alone.
C5_AtomicReload ==
  [][/\ blocked_domains' # blocked_domains =>
          \E t \in BlThreads :
            /\ Installs(t)
            /\ bl[t].i > Len(blocklist_urls)
            /\ blocked_domains' = BlocklistOf(bl[t].ok)
     /\ (dec.pc = "blocklist" /\ dec'.pc = "done") =>
          /\ blocked_domains' = blocked_domains
          /\ blocked_domains \in {BlocklistOf(S) : S \in SUBSET (1..Len(blocklist_urls))}
          /\ dec'.result = blocklist_check(dec.host, blocked_domains,
                                           manual_blocked_domains)]_vars

\* a decision read the blocklist while a loader held a candidate that is
\* neither empty nor the installed set
C5_Witness == dec.pc = "done" /\ dec.fn = "_is_blocked" /\ dec.partial

\* C6 as claimed: the result of one _is_blocked call equals what _is_blocked
\* evaluated in one piece returns on the resolver state of some instant
\* between the call's start and its return.
C6_AsClaimed ==
  (dec.pc = "done" /\ dec.fn = "_is_blocked") => dec.result \in dec_atomic

\* C9 as claimed: at most one reload of the blocklist and at most one reload
\* of the whitelist is past its entry check at any time.
C9_AsClaimed == Cardinality(BlInFlight) <= 1 /\ Cardinality(WlInFlight) <= 1

\* C10: the data lock is held only by a loader inside its swap section,
\* never by one that fetches or parses; so a decision that stands before
\* one of its lock sections can take its step whenever no loader is inside
\* its swap section, whatever the other loaders are fetching.
C10_ReloadNeverBlocks ==
  /\ \A t \in BlThreads : lock = t => bl[t].pc = "store"
  /\ \A t \in WlThreads : lock = t => wlt[t].pc \in {"store", "update"}
  /\ (/\ dec.pc \in {"whitelist", "blocklist", "direct_ip"}
      /\ \A t \in BlThreads : bl[t].pc # "store"
      /\ \A t \in WlThreads : wlt[t].pc \notin {"store", "update"})
       => DecCanStep

\* a call ran from its start to its return while loaders were fetching
C10_Witness == dec.pc = "done" /\ dec.inflight

(***************************************************************************)
(* The proxy handler.                                                      *)
(***************************************************************************)
\* C2: when filtering was enabled and the request's host was blocked (so not
\* whitelisted) all through the handling of a CONNECT or of a plain HTTP
\* request, the handler answers 403, records exactly one 'blocked' event and
\* no 'allowed' one, and never calls create_connection.
C2_BlockedHost ==
  (hd.pc = "done" /\ hist.blocked) =>
    /\ hd.outcome = "403"
    /\ hd.blocked_events = 1
    /\ hd.allowed_events = 0
    /\ hd.upstream = 0

\* a CONNECT to a blocked host has been answered
C2_Witness ==
  /\ hd.pc = "done"
  /\ hist.blocked
  /\ req.method = "CONNECT"
  /\ hd.hostname \in blocked_domains

\* C3 as claimed: a request whose host was whitelisted all through its
\* handling is not answered 403, and the handler has called
\* create_connection for it.
C3_AsClaimed ==
  (hd.pc = "done" /\ hist.whitelisted) =>
    (hd.outcome # "403" /\ hd.upstream >= 1)

\* the blocked set, and the whitelist sets, of the last reload that has
\* returned or of a later one that has installed its sets already
CurrentBlocked ==
  IF \E t \in BlThreads : bl[t].pc = "finish"
  THEN CHOOSE d \in {bl[t].domains : t \in {u \in BlThreads : bl[u].pc = "finish"}} : TRUE
  ELSE returned.bl

CurrentWhitelist ==
  IF \E t \in WlThreads : wlt[t].pc = "update"
  THEN CHOOSE w \in {[domains |-> wlt[t].new_domains, networks |-> wlt[t].new_networks] :
                       t \in {u \in WlThreads : wlt[u].pc = "update"}} : TRUE
  ELSE [domains |-> returned.wl_domains, networks |-> returned.wl_networks]

\* C11: the whitelist lookup and the blocklist lookup of every call give
\* what the lookup gives on the sets of the last reload that has returned,
\* or of a later reload that has installed its sets; a set from before the
\* last returned reload is never read.
C11_HappensBefore ==
  [][/\ (dec.pc = "blocklist" /\ dec'.pc = "done") =>
          dec'.result = blocklist_check(dec.host, CurrentBlocked,
                                        manual_blocked_domains)
     /\ (dec.pc = "whitelist" /\ dec'.pc # "whitelist") =>
          LET w == is_whitelisted(dec.host, CurrentWhitelist.domains,
                                  CurrentWhitelist.networks)
          IN  IF dec.fn = "is_whitelisted" THEN dec'.result = w
              ELSE w <=> (dec'.pc = "done")]_vars

\* a call that started after a reload had returned a set other than the
\* one of the construction has read the blocklist
C11_Witness ==
  /\ dec.pc = "done"
  /\ dec.after
  /\ dec.fn = "_is_blocked"
  /\ ~looks_like_ip(dec.host)
  /\ returned.bl # BlocklistOf(1..Len(blocklist_urls))
  /\ ~is_whitelisted(dec.host, whitelisted_domains_local, whitelisted_networks)

\* thread t gives source i up in this step: its last attempt has failed
GivesUp(t) ==
  /\ bl[t].pc = "fetch"
  /\ bl[t].attempt = MaxAttempts - 1
  /\ bl'[t].ok = bl[t].ok
  /\ bl'[t] # bl[t]

\* C12: a blocklist reload in which some sources failed every attempt and at
\* least one answered goes on to the next source after each failure, comes
\* to its install step having been through every source, installs exactly
\* the union of the domains of the sources that answered and stamps
\* last_reload with the time of the install.
C12_PartialFailure ==
  [][\A t \in BlThreads :
       /\ GivesUp(t) =>
            /\ bl'[t].i = bl[t].i + 1
            /\ bl'[t].domains = bl[t].domains
            /\ bl'[t].pc = IF bl[t].i < Len(blocklist_urls) THEN "fetch" ELSE "swap"
       /\ (bl[t].pc = "fetch" /\ bl'[t] # bl[t]) => bl'[t].pc \in {"fetch", "swap"}
       /\ (bl[t].pc = "swap" /\ bl'[t] # bl[t]) => bl'[t].pc = "store"
       /\ (bl[t].pc = "store" /\ bl'[t] # bl[t]) => Installs(t)
       /\ (Installs(t) /\ bl[t].ok # {}) =>
            /\ bl[t].i = Len(blocklist_urls) + 1
            /\ blocked_domains' = BlocklistOf(bl[t].ok)
            /\ last_reload' = now]_vars

\* a reload whose first source failed and whose second answered has
\* installed the domains of the second alone
C12_Witness ==
  \E t \in BlThreads :
    /\ bl[t].pc = "finish"
    /\ bl[t].ok = {2}
    /\ blocked_domains = BlocklistOf({2})
    /\ blocked_domains # BlocklistOf({1, 2})
    /\ now > 0
    /\ last_reload = now

\* whitelist thread t installs its candidate sets in this step
InstallsWhitelist(t) == wlt[t].pc = "store" /\ wlt'[t].pc = "update"

\* C13 as claimed: a whitelist reload in which every source failed all of
\* its attempts leaves the whitelisted domains and the whitelisted networks
\* as they were before the reload.
C13_AsClaimed ==
  [][\A t \in WlThreads :
       (InstallsWhitelist(t) /\ wlt[t].ok = {}) =>
          /\ whitelisted_domains_local' = whitelisted_domains_local
          /\ whitelisted_networks' = whitelisted_networks]_vars

\* the target of a CONNECT splits into a host and a decimal port
WellFormed(r) ==
  r.method = "CONNECT" =>
    LET parts == Split1(r.path, ":")
    IN  Len(parts) = 2 /\ IsInt(parts[2])

\* the port the request asks for
RequestPort(r) ==
  IF r.method = "CONNECT" THEN DecVal(Split1(r.path, ":")[2])
  ELSE http_target(r).port

\* C14: a request whose host was whitelisted at no instant of its handling
\* and that the blocklist branch did not reject, for a port outside
\* VOIP_ALLOWED_PORTS while block_http_other_ports is set, is answered 403
\* without any call of create_connection, CONNECT or not, with block_enabled
\* set or not.
C14_PortPolicy ==
  (/\ hd.pc = "done"
   /\ WellFormed(req)
   /\ hist.unlisted
   /\ hd.blocked_events = 0
   /\ config_manager["block_http_other_ports"]
   /\ RequestPort(req) \notin VOIP_ALLOWED_PORTS)
    => (hd.outcome = "403" /\ hd.upstream = 0)

\* a CONNECT to port 81 has been refused with filtering disabled
C14_Witness ==
  /\ hd.pc = "done"
  /\ req.method = "CONNECT"
  /\ WellFormed(req)
  /\ RequestPort(req) = 81
  /\ hist.unlisted
  /\ hd.blocked_events = 0
  /\ config_manager["block_http_other_ports"]
  /\ ~config_manager["block_enabled"]
  /\ hd.outcome = "403"

\* the scheme _handle_http_method gives the request (lines 185, 203)
RequestScheme(r) == IF startswith_http(r) THEN r.scheme ELSE "http"

\* C15 as claimed: a non-CONNECT request of scheme http, absolute-URI or
\* origin-form with its host in the Host header, for an allowed port and a
\* host, the one the handler decides on, that is neither whitelisted nor
\* blocked, handled while block_enabled and block_http_traffic are set, is
\* answered 403 without any call of create_connection.
C15_AsClaimed ==
  (/\ hd.pc = "done"
   /\ req.method # "CONNECT"
   /\ RequestScheme(req) = "http"
   /\ http_target(req).host # <<>>
   /\ Lower(http_target(req).host) = hd.hostname
   /\ RequestPort(req) \in VOIP_ALLOWED_PORTS
   /\ hist.unlisted
   /\ hd.blocked_events = 0
   /\ ~IsBlockedNow(hd.hostname)
   /\ config_manager["block_enabled"]
   /\ config_manager["block_http_traffic"])
    => (hd.outcome = "403" /\ hd.upstream = 0)

\* the calls of create_connection that have failed: in do_CONNECT every call
\* that succeeds is followed by the 200 and the relay
ConnectFailures(h) == h.upstream - (IF h.outcome = "200" THEN 1 ELSE 0)

\* C16 as claimed: a CONNECT during which a call of create_connection has
\* failed, on the whitelist bypass or on the normal path, is answered 502:
\* no 200 is sent and no relay is started.
C16_AsClaimed ==
  (/\ hd.pc = "done"
   /\ req.method = "CONNECT"
   /\ ConnectFailures(hd) >= 1)
    => hd.outcome = "502"

\* C17 as claimed: a CONNECT whose target has no ':' or whose port is not a
\* number is answered 400, with no exception leaving do_CONNECT and no call
\* of create_connection.
C17_AsClaimed ==
  (/\ hd.pc = "done"
   /\ req.method = "CONNECT"
   /\ ~WellFormed(req))
    => (hd.outcome = "400" /\ hd.upstream = 0)

\* the request names no host: none in its target, none in a Host header
NoHost(r) == r.method # "CONNECT" /\ r.url_host = <<>> /\ r.host_hdr = <<>>

\* C18: a request other than CONNECT with no host in its target and no Host
\* header is answered 400; no blocked and no allowed event is recorded and
\* create_connection is not called.
C18_MissingHost ==
  (hd.pc = "done" /\ NoHost(req)) =>
    /\ hd.outcome = "400"
    /\ hd.blocked_events = 0
    /\ hd.allowed_events = 0
    /\ hd.upstream = 0

\* an origin-form request without a Host header has been answered with
\* every policy flag off
C18_Witness ==
  /\ hd.pc = "done"
  /\ NoHost(req)
  /\ req.scheme = "none"
  /\ hd.outcome = "400"
  /\ \A n \in ProxyFlags : ~config_manager[n]

\* a copy loop of the relay is running
Running(w) == rl.wk[w].pc \notin {"unstarted", "finished"}

\* full_duplex_relay has returned to the handler
RelayReturned == rl.pc \in {"after", "returned"}

\* C19: full_duplex_relay has returned only when both copy loops have
\* finished and both sockets are closed; no socket is closed while a copy
\* loop is running or still to be started; the handler has returned only
\* when the relay has.
C19_RelayJoins ==
  /\ RelayReturned =>
       /\ \A w \in Workers : rl.wk[w].pc = "finished"
       /\ \A s \in Socks : rl.closed[s]
  /\ (\E s \in Socks : rl.closed[s]) =>
       \A w \in Workers : rl.wk[w].pc = "finished"
  /\ rl.pc \in {"close_a", "close_b"} =>
       \A w \in Workers : rl.wk[w].pc = "finished"
  /\ rl.pc = "returned" => \A s \in Socks : rl.closed[s]

\* the handler has returned from a relay that carried bytes both ways and
\* whose two directions ended at different times
C19_Witness ==
  /\ rl.pc = "returned"
  /\ rl.caller = "CONNECT"
  /\ \A s \in Socks : rl.sent[s] # <<>> /\ rl.tx[s] # <<>>
  /\ \E s \in Socks : rl.late[s]

\* nothing from outside has cut the relay short: no reset, no shutdown event
Undisturbed == ~rl.shutdown /\ \A s \in Socks : ~rl.reset[s]

\* all that the peer of the source of w has sent has been sent on to the
\* destination of w
Delivered(w) == rl.tx[dst(w)] = rl.sent[src(w)]

\* C20: a copy loop that ends, on end of stream or on an error, shuts down
\* the write side of its destination and touches nothing else: both
\* sockets stay open, the write side of its source stays as it is and the
\* loop of the other direction goes on from where it is; and whatever the
\* peer of the other direction has sent, before or after, is delivered
\* unless a reset or the shutdown event cuts that direction short.
C20_HalfClose ==
  /\ [][\A w \in Workers :
          (rl.wk[w].pc \in {"eof", "finally"} /\ rl'.wk[w] # rl.wk[w]) =>
             /\ rl'.wr_shut[dst(w)] \/ rl.closed[dst(w)]
             /\ rl'.wr_shut[src(w)] = rl.wr_shut[src(w)]
             /\ rl'.closed = rl.closed
             /\ rl'.wk[other(w)] = rl.wk[other(w)]
             /\ rl'.rx = rl.rx /\ rl'.tx = rl.tx
             /\ rl'.wk[w].pc = IF rl.wk[w].pc = "eof" THEN "finally" ELSE "finished"]_vars
  /\ \A w \in Workers :
       (rl.wk[other(w)].pc = "finished" /\ Running(w) /\ ~Delivered(w))
         ~> (Delivered(w) \/ ~Undisturbed)

\* the upstream sent after the client-to-upstream loop had ended, and all
\* it sent has reached the client
C20_Witness ==
  /\ rl.wk["t1"].pc = "finished"
  /\ rl.late["b_sock"]
  /\ rl.sent["b_sock"] # <<>>
  /\ Delivered("t2")
  /\ Undisturbed

\* p is an initial part of q
IsPrefix(p, q) == Len(p) <= Len(q) /\ SubSeq(q, 1, Len(p)) = p

\* C21: in each direction what has been sent to the destination is an
\* initial part, byte for byte, of what recv has returned from the source,
\* which is an initial part of what the peer sent; a direction that ended
\* on end of stream has sent all that recv returned and all the peer sent.
C21_RelayBytes ==
  \A w \in Workers :
    /\ IsPrefix(rl.tx[dst(w)], rl.rd[src(w)])
    /\ IsPrefix(rl.rd[src(w)], rl.sent[src(w)])
    /\ (rl.wk[w].pc = "finished" /\ rl.wk[w].ended = "eof") =>
         /\ rl.tx[dst(w)] = rl.rd[src(w)]
         /\ rl.tx[dst(w)] = rl.sent[src(w)]

\* both directions have ended on end of stream, each after MaxBytes bytes,
\* the upstream having sent after the other direction had ended
C21_Witness ==
  /\ \A w \in Workers :
       /\ rl.wk[w].pc = "finished"
       /\ rl.wk[w].ended = "eof"
       /\ Len(rl.tx[dst(w)]) = MaxBytes
  /\ rl.late["b_sock"]

\* the exception was raised in the code of the method that was called, not
\* in a method it calls
OwnFault(c) ==
  /\ c.fn # "none"
  /\ c.fault # "none"
  /\ c.fn = "_is_blocked" => c.fault # "whitelist"

\* C22 as claimed: a call of is_whitelisted or of _is_blocked in whose own
\* code an exception was raised has returned False.
C22_AsClaimed == OwnFault(call) => call.result = FALSE

\* C23: after a write that changed a flag, every observer registered at the
\* write has been called once, in the order of registration, whichever of
\* them raised; the flag holds the value written and the setter has
\* returned normally.
C23_ObserverIsolation ==
  (obs.last.name # "none" /\ obs.last.old # obs.last.value) =>
    /\ obs.last.calls = obs.last.registered
    /\ config_manager[obs.last.name] = obs.last.value
    /\ obs.last.returned

\* block_enabled was switched off with three observers registered of which
\* the first raised, and the two after it were called
C23_Witness ==
  /\ obs.last.name = "block_enabled"
  /\ obs.last.old /\ ~obs.last.value
  /\ Len(obs.last.registered) = 3
  /\ obs.last.registered[1] \in obs.last.raising
  /\ obs.last.calls = obs.last.registered
  /\ ~config_manager["block_enabled"]

\* C24 as claimed: a request answered 403 has recorded one blocked event and
\* no allowed event; a request that was tunnelled or forwarded has recorded
\* one allowed event and no blocked event.
C24_AsClaimed ==
  hd.pc = "done" =>
    /\ hd.outcome = "403" =>
         (hd.blocked_events = 1 /\ hd.allowed_events = 0)
    /\ hd.outcome \in {"200", "relay"} =>
         (hd.allowed_events = 1 /\ hd.blocked_events = 0)

\* C25 as claimed: a step of maybe_reload_background that starts threads is
\* taken only when the interval has elapsed since last_reload and no reload
\* of either list is in flight, and it starts one thread for each list.
C25_AsClaimed ==
  [][maybe_reload_background(BlThreads, WlThreads) =>
       /\ now - last_reload > reload_interval
       /\ BlInFlight = {} /\ WlInFlight = {}
       /\ Cardinality({t \in BlThreads : bl'[t] # bl[t]}) = 1
       /\ Cardinality({t \in WlThreads : wlt'[t] # wlt[t]}) = 1]_vars

\* C26 as claimed: for every request other than CONNECT for which the
\* handler has called create_connection, the hostname the whitelist and the
\* blocklist were asked about is the host it connected to, up to case.
C26_AsClaimed ==
  (hd.pc = "done" /\ req.method # "CONNECT" /\ hd.upstream >= 1) =>
    hd.hostname = Lower(hd.target_host)

\* C27 as claimed: the value handle_protection_toggle writes to block_enabled
\* is the value the store holds when the handler returns, and the
\* configuration reload the handler triggers leaves the four policy flags
\* as the write left them.
C27_AsClaimed ==
  [][\A explicit \in BOOLEAN, value \in BOOLEAN, persisted \in BOOLEAN :
       handle_protection_toggle(explicit, value, persisted, {"b1"}, {"w1"}) =>
         config_manager' =
           [config_manager EXCEPT
              !["block_enabled"] = ToggleValue(explicit, value)]]_vars


\* what the whitelist sources list now
ListedNow ==
  UNION {ParsedWhitelistAt[web.doc][i].domains : i \in DOMAIN WHITELIST_URLS}

\* C28 as claimed: when a whitelist reload that fetched every source, and
\* whose inputs did not change while it ran, installs its result, the
\* whitelist domain set becomes exactly the manual entries plus the entries
\* the sources list; a domain that only a source listed, and that no source
\* lists any more, is no longer in it.
C28_AsClaimed ==
  [][\A t \in WlThreads :
       (/\ load_whitelist_store(t)
        /\ t \in web.fresh
        /\ wlt[t].ok = DOMAIN WHITELIST_URLS)
         => whitelisted_domains_local' = web.manual \cup ListedNow]_vars


\* C29 as claimed: whenever no whitelist reload is running, every entry the
\* user added to the whitelist through the domains API, and did not move to
\* the block list since, is in settings.whitelisted_domains, whatever
\* reloads ran while it was added.
C29_AsClaimed ==
  (\A t \in WlThreads : wlt[t].pc = "idle") =>
    web.manual \subseteq whitelisted_domains


\* C30 as claimed: while it serves one request the handler calls
\* create_connection at most once, so that a connect that failed is not
\* followed by another, and it asks is_whitelisted once: it is never at the
\* second call of do_CONNECT (line 93).
C30_AsClaimed ==
  /\ hd.upstream <= 1
  /\ hd.pc # "c_whitelist2"


\* a loader at a fetch is on a source of its list that has not answered in
\* this reload, with at most two failed attempts on it behind it
FetchBound(r, urls) ==
  r.pc = "fetch" =>
    /\ r.attempt \in 0..2
    /\ r.i \in 1..Len(urls)
    /\ r.ok \subseteq 1..(r.i - 1)

\* one attempt: a success ends the attempts on the source; a failure is
\* followed by a wait of 1, 3 or 5 seconds and, after the third, by the
\* next source
RetryStep(r, rn) ==
  (r.pc = "fetch" /\ rn # r) =>
    \/ /\ rn.ok = r.ok \cup {r.i}
       /\ rn.i = r.i + 1
       /\ rn.attempt = 0
       /\ rn.slept = 0
    \/ /\ rn.ok = r.ok
       /\ rn.slept = <<1, 3, 5>>[r.attempt + 1]
       /\ IF r.attempt < 2
          THEN rn.i = r.i /\ rn.attempt = r.attempt + 1
          ELSE rn.i = r.i + 1 /\ rn.attempt = 0

\* C31: in one reload each source is tried at most 3 times and never again
\* once it has answered; the first, second and third failed attempt on a
\* source are followed by waits of 1, 3 and 5 seconds; and every reload that
\* has been started comes to its end, whatever attempts fail.
C31_BoundedRetries ==
  /\ [](/\ \A t \in BlThreads : FetchBound(bl[t], blocklist_urls)
        /\ \A t \in WlThreads : FetchBound(wlt[t], WHITELIST_URLS))
  /\ [][/\ \A t \in BlThreads : RetryStep(bl[t], bl'[t])
        /\ \A t \in WlThreads : RetryStep(wlt[t], wlt'[t])]_vars
  /\ \A t \in BlThreads : (bl[t].pc # "idle") ~> (bl[t].pc = "idle")
  /\ \A t \in WlThreads : (wlt[t].pc # "idle") ~> (wlt[t].pc = "idle")

\* a blocklist reload has installed after its first source failed three
\* times and its second answered, while the whitelist reload has waited 3
\* seconds after its second failed attempt
C31_Witness ==
  /\ bl["b1"].pc = "finish"
  /\ bl["b1"].ok = {2}
  /\ wlt["w1"].pc = "fetch"
  /\ wlt["w1"].attempt = 2
  /\ wlt["w1"].slept = 3


\* C32: in a CONNECT the 200 is sent in a step after the one in which
\* create_connection returned the upstream socket, and full_duplex_relay is
\* called in a step after the one that sent the 200; a handler that has
\* announced the tunnel holds an upstream socket.
C32_TunnelOrder ==
  /\ [](req.method = "CONNECT" =>
          /\ hd.announced => hd.remote
          /\ hd.relayed => hd.announced)
  /\ [][req.method = "CONNECT" =>
          /\ (hd'.announced /\ ~hd.announced) => hd.remote
          /\ (hd'.relayed /\ ~hd.relayed) => hd.announced]_vars

\* a whitelist bypass whose first connect failed has connected at the
\* second, announced the tunnel and relayed
C32_Witness ==
  /\ req.method = "CONNECT"
  /\ hd.pc = "done"
  /\ hd.upstream = 2
  /\ hd.remote /\ hd.announced /\ hd.relayed


\* C33: a call of is_whitelisted about a literal IP returns true exactly when
\* the normalised IP string is in whitelisted_domains_local or one network
\* of whitelisted_networks contains the address, both sets being the ones of
\* the single state in which the call holds the lock; a label suffix of the
\* IP in the domain set does not count.
C33_IpWhitelist ==
  [][(/\ dec.fn = "is_whitelisted"
      /\ dec.pc = "whitelist"
      /\ dec'.pc = "done"
      /\ looks_like_ip(dec.host)) =>
       /\ lock = Free
       /\ dec'.result =
            (\/ dec.host \in whitelisted_domains_local
             \/ \E net \in whitelisted_networks :
                  InNetwork(ip_address(dec.host), net))]_vars

\* while a whitelist reload is fetching, 1.2.3.4 has been found not
\* whitelisted although its label suffix 3.4 is in the domain set
C33_Witness ==
  /\ dec.fn = "is_whitelisted"
  /\ dec.pc = "done"
  /\ dec.host = <<"1", ".", "2", ".", "3", ".", "4">>
  /\ <<"3", ".", "4">> \in whitelisted_domains_local
  /\ wlt["w1"].pc = "fetch"
  /\ dec.result = FALSE


\* C34: whatever reloads have run, every element of blocked_domains is
\* lowercase, does not start with a dot, contains a dot, is 3 to 253
\* characters long and is not a literal IP.
C34_BlockedDomainsShape ==
  \A d \in blocked_domains :
    /\ Lower(d) = d
    /\ d[1] # "."
    /\ Contains(d, ".")
    /\ Len(d) >= 3
    /\ Len(d) <= 253
    /\ ~looks_like_ip(d)

\* a reload has installed the domains of the second source alone, whose
\* document also holds a line in upper case with a leading dot, a name
\* without a dot and a literal IP
C34_Witness ==
  /\ bl["b1"].pc = "finish"
  /\ bl["b1"].ok = {2}
  /\ <<"t", ".", "t", ".", "n">> \in blocked_domains
  /\ <<"t", ".", "n">> \notin blocked_domains


\* the name of a forwarded line, lowercased
LineName(line) == Lower(Split1(line, ":")[1])

IsHost(header) == Lower(header[1]) = <<"h", "o", "s", "t">>

\* the headers of the request that are not hop-by-hop, in the order received
RECURSIVE EndToEnd(_)
EndToEnd(headers) ==
  IF headers = <<>> THEN <<>>
  ELSE IF Lower(Head(headers)[1]) \in hop_by_hop THEN EndToEnd(Tail(headers))
  ELSE <<Head(headers)>> \o EndToEnd(Tail(headers))

\* C35: the forwarded header list ends with "Connection: close", which is
\* its only Connection header and its only hop-by-hop header; before it
\* come the request's other headers, one line each in the order received,
\* a Host header as "Host: host", or "Host: host:port" when the port is not
\* the default of the scheme, every other header as received.
C35_HeaderRewrite ==
  call.fn = "header_lines" =>
    LET out == call.result
        kept == EndToEnd(call.headers)
        value == IF (call.scheme = "http" /\ call.port = 80)
                      \/ (call.scheme = "https" /\ call.port = 443)
                 THEN call.hostname
                 ELSE call.hostname \o <<":">> \o str_int(call.port)
    IN  /\ Len(out) = Len(kept) + 1
        /\ out[Len(out)] = ConnectionClose
        /\ \A i \in 1..Len(kept) :
             /\ LineName(out[i]) \notin hop_by_hop
             /\ IF IsHost(kept[i])
                THEN out[i] = <<"H", "o", "s", "t", ":", " ">> \o value
                ELSE out[i] = kept[i][1] \o <<":", " ">> \o kept[i][2]

\* a request to port 81 with a Connection header, a header whose name only
\* begins like a hop-by-hop one, and a Host header in another case: two
\* lines and the closing one are forwarded
C35_Witness ==
  /\ call.fn = "header_lines"
  /\ call.port = 81
  /\ Len(call.headers) = 3
  /\ Lower(call.headers[1][1]) \in hop_by_hop
  /\ call.headers[2][1] = <<"T", "e", "a">>
  /\ call.headers[3][1] = <<"h", "O", "S", "T">>
  /\ Len(call.result) = 3


\* a blocking call of worker w can return: something has arrived, or the
\* stream has ended, or the socket fails
RecvCanReturn(w) ==
  \/ rl.rx[src(w)] # <<>>
  \/ rl.fin[src(w)]
  \/ rl.reset[src(w)]
  \/ rl.closed[src(w)]

\* C36: once the shutdown signal is set, a copy loop that is at its loop
\* test or in sendall never enters recv again and reads nothing more; at
\* the loop test it leaves the loop, then shuts down the write side of its
\* destination and finishes; setting the signal changes no worker's
\* position, and a worker inside recv leaves it only when recv itself can
\* return.
C36_ShutdownBetweenIterations ==
  /\ [][\A w \in Workers :
          (rl.shutdown /\ rl.wk[w].pc \in {"loop", "send"}) =>
            /\ rl'.wk[w].pc # "recv"
            /\ rl'.rd[src(w)] = rl.rd[src(w)]]_vars
  /\ [][\A w \in Workers :
          (rl.shutdown /\ rl.wk[w].pc = "loop" /\ rl'.wk[w] # rl.wk[w]) =>
            rl'.wk[w].pc = "finally"]_vars
  /\ [](\A w \in Workers :
          (rl.wk[w].pc = "finished" /\ rl.wk[w].ended = "shutdown") =>
            rl.wr_shut[dst(w)])
  /\ \A w \in Workers :
       (rl.shutdown /\ rl.wk[w].pc = "loop") ~> (rl.wk[w].pc = "finished")
  /\ [][(~rl.shutdown /\ rl'.shutdown) =>
          /\ rl'.wk = rl.wk
          /\ rl'.rx = rl.rx
          /\ rl'.tx = rl.tx]_vars
  /\ [][\A w \in Workers :
          (rl.shutdown /\ rl.wk[w].pc = "recv" /\ rl'.wk[w] # rl.wk[w]) =>
            RecvCanReturn(w)]_vars

\* the signal is set; one copy loop has left at its loop test and shut
\* down its destination, the other is still inside a recv that has
\* nothing to return
C36_Witness ==
  /\ rl.shutdown
  /\ rl.wk["t2"].pc = "finished"
  /\ rl.wk["t2"].ended = "shutdown"
  /\ rl.wr_shut["a_sock"]
  /\ rl.wk["t1"].pc = "recv"
  /\ ~RecvCanReturn("t1")


\* C37 as claimed: a step that changes the stored value of a flag calls
\* every registered observer once with the flag's name, the old and the new
\* value, and a write of the value the flag already holds calls nobody.
C37_AsClaimed ==
  [][\A n \in FlagNames :
       /\ config_manager'[n] # config_manager[n] =>
            \A o \in Range(obs.callbacks) :
              /\ obs'.last.name = n
              /\ obs'.last.old = config_manager[n]
              /\ obs'.last.value = config_manager'[n]
              /\ Cardinality({i \in 1..Len(obs'.last.calls) :
                                obs'.last.calls[i] = o}) = 1
       /\ (obs.last.name = "none" /\ obs'.last.name = n
             /\ obs'.last.old = obs'.last.value) =>
            obs'.last.calls = <<>>]_vars


\* thread t is inside the with block of _load_blocklist
InsideLoad(t) == bl[t].pc \in {"fetch", "swap", "store", "finish"}

\* C38: the loading lock is held, and the loading event set, only while a
\* _load_blocklist is inside its with block; the step that ends a load,
\* after a store or after an unexpected exception, leaves the lock free
\* and the event clear; and a load returns as "already in progress" only
\* while another load is inside its with block.
C38_LoadingReleased ==
  /\ [](loading_lock # Free => InsideLoad(loading_lock))
  /\ [](resolver_loading => loading_lock # Free)
  /\ [][\A t \in BlThreads :
          (InsideLoad(t) /\ bl'[t].pc = "idle") =>
            /\ loading_lock' = Free
            /\ resolver_loading' = FALSE]_vars
  /\ [][\A t \in BlThreads :
          (bl[t].pc = "start" /\ bl'[t].pc = "idle") =>
            \E u \in BlThreads \ {t} : InsideLoad(u)]_vars

\* a load has met the exception before its first download and is about to
\* leave, still holding the lock with the event set, while a second load
\* that found the lock free waits for it
C38_Witness ==
  /\ bl["b1"].pc = "finish"
  /\ bl["b1"].i = 1
  /\ loading_lock = "b1"
  /\ resolver_loading
  /\ bl["b2"].pc = "acquire"


\* C39 as claimed: once the peers of both sockets have shut down their
\* sending side or the connections have failed, so that every recv ends by
\* returning end of stream or by raising, both copy loops finish,
\* full_duplex_relay returns and the handler returns.
C39_AsClaimed ==
  (rl.pc \notin {"idle", "returned"} /\ \A s \in Socks : rl.fin[s] \/ rl.reset[s])
    ~> (rl.pc = "returned")

====
